---------------------------- MODULE Spec2Model ----------------------------
(***************************************************************************)
(* CoastSnap image processing (coastsnap-web/backend): registration of raw *)
(* photos to the control photo, camera pose solving and rectification onto *)
(* the world grid, and shoreline extraction, with the service that runs    *)
(* them as one site-run.                                                   *)
(*                                                                         *)
(* Specifications of this module:                                          *)
(*   SpecIR     Registration.image_registration called on one photo        *)
(*   SpecReg    Registration.generate_registrations, one batch             *)
(*   Spec       site-runs of ProcessingService, input files may be missing *)
(*   SpecPose   site-runs of ProcessingService over the saved GCP picks    *)
(*   SpecRect   Rectification.rectify_image sampling the photo             *)
(*   SpecThresh the classification threshold of mapSL                      *)
(*   SpecSL     mapSL on one raster and the shoreline record saved for it  *)
(*   SpecConc   concurrent processing requests and site switches           *)
(*   SpecMask   the mask filter of Registration on one set of matches      *)
(*   SpecFocal  the focal-length candidates of the pose search             *)
(*   SpecProbe  the black test of mapSL for one candidate                  *)
(*   SpecGrad   the dry-sand pass of mapSL on one inland profile           *)
(*   SpecStore  the shoreline records under mapping, edits and approvals   *)
(*   SpecSites  SiteManager under the site and metrics endpoints           *)
(***************************************************************************)
EXTENDS Integers, Sequences, FiniteSets, TLC

(***************************************************************************)
(* Bounds of the model.                                                    *)
(***************************************************************************)
\* raw photos of the session (*.jpg files of Raw/), in sorted order 1..NumPhotos
NumPhotos == 2
\* largest number of retained correspondences handed to image_registration
MaxKps == 5

Photos == 1..NumPhotos

\* in-mask match counts a photo of the session can have: none, just below
\* the minimum, the minimum, and counts that put the batch threshold of two
\* photos on the minimum (0.5 * (4 + 12) / 2 = 4) and above it
\* (0.5 * (4 + 13) / 2 = 4.25)
MatchCounts == {0, 3, 4, 12, 13}

VARIABLES
    match,          \* photo -> number of matched control keypoints inside the mask
    homog,          \* photo -> cv2.findHomography returns a matrix (not None)
    registered,     \* photos that have a file registered_<name>.jpeg in Registered/
    match_counts,   \* generate_registrations: the list built by the first pass
    rpc,            \* generate_registrations: position
    ridx,           \* generate_registrations: index of the second pass
    passed,         \* photos generate_registrations handed to image_registration
    visited,        \* photos the second pass has looked at
    reg_ret,        \* what generate_registrations returned to its caller
    ir,             \* the last call of image_registration: arguments and outcome
    inputs,         \* which input files of the site exist
    picks,          \* content of Target Image/gcp_pixels.json: the saved GCP picks
    converges,      \* the least-squares fit of the angles converges on the picks
    pc,             \* run_registration_and_rectification: position
    skip_mapping,   \* its argument
    err,            \* the exception that ended the run, "" if none
    result,         \* the value the run returned
    file_list,      \* generate_rectifications / run_shoreline_mapping: files to do
    fitted,         \* the correspondences handed to the last pose fit
    rect_done,      \* photos rectified by the run in progress
    rectified,      \* photo -> the pose its raster in Rectified/ was made with
    params,         \* Rectified/rectification_params.json
    shorelines,     \* photos that have a record in Shorelines/
    before,         \* the output files as they were when the run started
    unreadable,     \* photos whose file in Registered/ cv2.imread cannot decode
    approved,       \* photos whose shoreline record has "approved": true
    nfits,          \* pose fits the run in progress has made
    prev,           \* the last completed run: its inputs and what it left
    im,             \* rectify_image: pixel (row, column) -> value of the aligned photo
    proj,           \* rectify_image: grid cell -> its projected, rounded (U, V)
    nan_cast,       \* what casting NaN to uint8 gives on this build
    images_N,       \* rectify_image: grid cell -> 1 where there is pixel data
    ind,            \* rectify_image: grid cell -> the flat index it reads
    raster,         \* the rectified raster as written: grid cell -> value
    cpc,            \* rectify_image sampling: position
    pdf_values,     \* mapSL: the density at each of pdf_locs
    thresh_otsu,    \* mapSL: the Otsu anchor
    RmBwet,         \* mapSL: location of the wet peak
    RmBdry,         \* mapSL: location of the dry peak
    thresh3,        \* mapSL: 3 * thresh
    tpc,            \* mapSL threshold: position
    prof,           \* mapSL: transect -> its sampled red-minus-blue profile
    contours,       \* mapSL: the list find_contours returns, as grid points
    dark,           \* mapSL: transect -> the black test finds no colour seaward
    strong_edge,    \* mapSL: transect -> the dry-sand pass finds a strong edge
    cand,           \* mapSL: transect -> the candidate fix before the black test
    slx,            \* mapSL: transect -> the shoreline fix (self.x, self.y)
    dryx,           \* mapSL: transect -> the dry-sand fix (self.dryx, self.dryy)
    merr,           \* the exception mapSL raised, "" if none
    mpc,            \* mapSL: position
    sl_record,      \* the shoreline record saved for the raster
    current_site,   \* SiteManager._current_site, shared by all requests
    rq,             \* request thread -> where its processing run stands
    mask,           \* the ROI mask: pixel (row, column) -> value
    m_kpts0,        \* matched control-side keypoints, in half pixels
    m_kpts1,        \* matched raw-side keypoints, one for each of m_kpts0
    kps0,           \* get_filtered_keypoints: retained control-side keypoints
    kps1,           \* get_filtered_keypoints: retained raw-side keypoints
    count,          \* what count_matches returned
    mask_access,    \* the worst mask access so far: "ok", "wrapped", "IndexError"
    kpc,            \* which of the two methods have been called
    fx_lo,          \* 0.5 * NU / tan(FOV[1] / 2): the focal length of the widest view
    fx_hi,          \* 0.5 * NU / tan(FOV[0] / 2): the focal length of the narrowest view
    fx_all,         \* rectify_image: the focal-length candidates
    fx_err,         \* the exception building the candidates raised, "" if none
    fpc,            \* focal-length candidates: position
    xlim,           \* database.xlim: the world grid's bounds along x
    ylim,           \* database.ylim: the world grid's bounds along y
    dxdy,           \* database.dxdy: the world grid's spacing
    RminusBdouble,  \* mapSL: the colour-difference raster, NaN where masked
    bt_cand,        \* black test: the candidate fix (candidate_x, candidate_y)
    row_idx,        \* black test: the probed row
    col_idx,        \* black test: the probed column
    bt_kept,        \* black test: whether the candidate was written to slx, sly
    bpc,            \* black test: position
    inland_prof,    \* dry-sand pass: V_prof[:s_idx], the brightness landward of the fix
    dry_defined,    \* dry-sand pass: whether dry_slx, dry_sly were written
    trans_idx,      \* dry-sand pass: the sample of the boundary
    gpc,            \* dry-sand pass: position
    rect_files,     \* the photos of the Rectified directory: n stands for rectified_<n>.png
    store,          \* the Shorelines directory: key n stands for shoreline_<n>.json
    sites,          \* SiteManager.sites: the registry, in the order of its keys
    sm_current_site,\* SiteManager._current_site, "None" for None
    site_dir        \* SiteManager.site_dir and the paths under it: the site they belong to

regVars == <<match, homog, registered, match_counts, rpc, ridx, passed, visited,
             reg_ret, ir>>
runVars == <<inputs, picks, converges, pc, skip_mapping, err, result, file_list,
             fitted, rect_done, rectified, params, shorelines, before,
             unreadable, approved, nfits, prev>>
rectVars == <<im, proj, nan_cast, images_N, ind, raster, cpc>>
threshVars == <<pdf_values, thresh_otsu, RmBwet, RmBdry, thresh3, tpc>>
slVars == <<prof, contours, dark, strong_edge, cand, slx, dryx, merr, mpc, sl_record>>
concVars == <<current_site, rq>>
maskVars == <<mask, m_kpts0, m_kpts1, kps0, kps1, count, mask_access, kpc>>
focalVars == <<fx_lo, fx_hi, fx_all, fx_err, fpc>>
baseVars == <<regVars, runVars, rectVars, threshVars, slVars, concVars>>
probeVars == <<xlim, ylim, dxdy, RminusBdouble, bt_cand, row_idx, col_idx, bt_kept, bpc>>
gradVars == <<inland_prof, dry_defined, trans_idx, gpc>>
storeVars == <<rect_files, store>>
siteVars == <<sites, sm_current_site, site_dir>>
auxVars == <<maskVars, focalVars, probeVars, gradVars, storeVars, siteVars>>
\* what the actions of one group leave alone
notMask == <<baseVars, focalVars, probeVars, gradVars, storeVars, siteVars>>
notFocal == <<baseVars, maskVars, probeVars, gradVars, storeVars, siteVars>>
notProbe == <<baseVars, maskVars, focalVars, gradVars, storeVars, siteVars>>
notGrad == <<baseVars, maskVars, focalVars, probeVars, storeVars, siteVars>>
notStore == <<baseVars, maskVars, focalVars, probeVars, gradVars, siteVars>>
notSites == <<baseVars, maskVars, focalVars, probeVars, gradVars, storeVars>>
fnVars == <<rectVars, threshVars, slVars, concVars, auxVars>>
vars == <<regVars, runVars, fnVars>>

(***************************************************************************)
(* Registration (imageprocessing/registration.py)                          *)
(***************************************************************************)

\* count_matches(image_path): the number of matched control-side keypoints
\* whose mask value is non-zero
count_matches(p) == match[p]

\* get_filtered_keypoints(image_path): the same extraction, matching and mask
\* filter as count_matches; kps1 and kps0 are appended together, so both have
\* the length count_matches counts
get_filtered_keypoints(p) == match[p]

\* the minimum number of correspondences of a homography
MinMatches == 4

\* image_registration line 82: too few correspondences (kps are arrays here,
\* never None, and len(kps1) = len(kps0) = n)
not_enough_mutant(n) == n < MinMatches - 1
not_enough(n) == n < MinMatches

\* image_registration(image_path, kps1, kps0) with n correspondences:
\* the value returned and whether cv2.imwrite wrote the aligned photo
image_registration(p, n) ==
    IF not_enough(n)
    THEN [ret |-> "None", wrote |-> FALSE, raised |-> FALSE]
    ELSE IF ~homog[p]
         THEN [ret |-> "None", wrote |-> FALSE, raised |-> FALSE]
         ELSE [ret |-> "image", wrote |-> TRUE, raised |-> FALSE]

NoCall == [photo |-> 0, n |-> 0, ret |-> "nocall", wrote |-> FALSE, raised |-> FALSE]

\* a caller hands photo p and n retained correspondences to image_registration
CallImageRegistration(p, n) ==
    LET out == image_registration(p, n) IN
    /\ ir' = [photo |-> p, n |-> n, ret |-> out.ret, wrote |-> out.wrote,
              raised |-> out.raised]
    /\ registered' = IF out.wrote THEN registered \cup {p} ELSE registered
    /\ UNCHANGED <<match, homog, match_counts, rpc, ridx, passed, visited, reg_ret>>
    /\ UNCHANGED runVars
    /\ UNCHANGED fnVars

\* valid_counts (line 130) as the indexes of match_counts with num >= 4
valid_idx(mc) == {i \in DOMAIN mc : mc[i][2] >= MinMatches}

RECURSIVE SumOver(_, _)
SumOver(mc, S) ==
    IF S = {} THEN 0
    ELSE LET i == CHOOSE j \in S : TRUE IN mc[i][2] + SumOver(mc, S \ {i})

\* num_matches < threshold (line 146), threshold = avg_matches * 0.5 and
\* avg_matches = sum(valid_counts) / len(valid_counts); in integers:
\* num < sum / (2 * len)  <=>  2 * len * num < sum
below_threshold_mutant(mc, num) ==
    2 * Cardinality(valid_idx(mc)) * num <= SumOver(mc, valid_idx(mc))
below_threshold(mc, num) ==
    2 * Cardinality(valid_idx(mc)) * num < SumOver(mc, valid_idx(mc))

\* what a caller of generate_registrations gets: the method has no return
\* statement with a value, so the caller gets None, a value without fields
NotReturned == [returned |-> FALSE, fields |-> {}]
ReturnNone == [returned |-> TRUE, fields |-> {}]

\* first pass (lines 119-137): count the matches of every photo of the sorted
\* file list; return when no photo has at least 4.  (A missing Raw directory,
\* line 115, returns the same way as an empty file list.)
FirstPass ==
    /\ rpc = "start"
    /\ LET mc == [i \in Photos |-> <<i, count_matches(i)>>] IN
       /\ match_counts' = mc
       /\ IF valid_idx(mc) = {}
          THEN /\ rpc' = "done"
               /\ reg_ret' = ReturnNone
          ELSE /\ rpc' = "second"
               /\ reg_ret' = reg_ret
    /\ ridx' = 1
    /\ passed' = {}
    /\ visited' = {}
    /\ UNCHANGED <<match, homog, registered, ir>>
    /\ UNCHANGED runVars
    /\ UNCHANGED fnVars

\* second pass, one photo (lines 142-153)
SecondPassSkip ==
    /\ rpc = "second"
    /\ ridx <= Len(match_counts)
    /\ LET p == match_counts[ridx][1]
           num == match_counts[ridx][2] IN
       /\ \/ num < MinMatches
          \/ below_threshold(match_counts, num)
          \/ get_filtered_keypoints(p) < MinMatches
       /\ visited' = visited \cup {p}
    /\ ridx' = ridx + 1
    /\ UNCHANGED <<match, homog, registered, match_counts, rpc, passed, reg_ret, ir>>
    /\ UNCHANGED runVars
    /\ UNCHANGED fnVars

SecondPassRegister ==
    /\ rpc = "second"
    /\ ridx <= Len(match_counts)
    /\ LET p == match_counts[ridx][1]
           num == match_counts[ridx][2]
           n == get_filtered_keypoints(p)
           out == image_registration(p, n) IN
       /\ ~(num < MinMatches)
       /\ ~below_threshold(match_counts, num)
       /\ ~(n < MinMatches)
       /\ ir' = [photo |-> p, n |-> n, ret |-> out.ret, wrote |-> out.wrote,
                 raised |-> out.raised]
       /\ registered' = IF out.wrote THEN registered \cup {p} ELSE registered
       /\ passed' = passed \cup {p}
       /\ visited' = visited \cup {p}
    /\ ridx' = ridx + 1
    /\ UNCHANGED <<match, homog, match_counts, rpc, reg_ret>>
    /\ UNCHANGED runVars
    /\ UNCHANGED fnVars

\* the loop of the second pass is over: the method falls off its end
SecondPassEnd ==
    /\ rpc = "second"
    /\ ridx > Len(match_counts)
    /\ rpc' = "done"
    /\ reg_ret' = ReturnNone
    /\ UNCHANGED <<match, homog, registered, match_counts, ridx, passed, visited, ir>>
    /\ UNCHANGED runVars
    /\ UNCHANGED fnVars

(***************************************************************************)
(* GCP picks and the pose fit (services/processing_service.py lines 64-74, *)
(* imageprocessing/rectification.py)                                       *)
(***************************************************************************)
\* most GCPs a gcp_pixels.json holds
NumGCP == 4

\* a pixel coordinate of a saved pick: a pixel value, the marker -1 the
\* front end saves for a skipped GCP, JSON null, or no such key at all
PixelValues == {"10", "20"}
Coords == PixelValues \cup {"-1", "null", "missing"}

GCPPick(g, u, v) == [name |-> g, u |-> u, v |-> v]

\* n picks that all lie at pixel (c, c)
PlainPicks(n, c) == [g \in 1..n |-> GCPPick(g, c, c)]

\* complete picks of all GCPs, at two different pixel positions
GoodPicks == {PlainPicks(NumGCP, c) : c \in PixelValues}

\* picks of 0..NumGCP GCPs of which at most one has a coordinate that is
\* no pixel value
AllPicks ==
    {PlainPicks(n, "10") : n \in 0..NumGCP} \cup
    UNION {{[PlainPicks(n, "10") EXCEPT ![k] = GCPPick(k, u, v)] :
                k \in 1..n, u \in Coords \ {"20"}, v \in Coords \ {"20"}} :
           n \in 1..NumGCP}

\* gcp['u'], gcp['v'] of line 70 raise KeyError without the key
has_keys(gcp) == gcp.u # "missing" /\ gcp.v # "missing"

\* uv_coordinates = [[gcp['u'], gcp['v']] for gcp in selected_gcp_data]:
\* every saved pick, in order, whatever its coordinates are
uv_coordinates(sel) == [i \in DOMAIN sel |-> <<sel[i].u, sel[i].v>>]

\* the angles fitted by curve_fit: beta0[3:6]
nParams == 3

\* curve_fit(findUV3DOF, xyz, UV_true, beta0[3:6]) of lines 144 and 151 on
\* the 2 * nGCP numbers of UV_true: a null coordinate is no float
\* (TypeError), least squares refuses fewer residuals than parameters
\* (TypeError), and a fit that does not converge raises RuntimeError
curve_fit(uv) ==
    IF \E i \in DOMAIN uv : uv[i][1] = "null" \/ uv[i][2] = "null"
    THEN "TypeError"
    ELSE IF 2 * Len(uv) < nParams
         THEN "TypeError"
         ELSE IF ~converges THEN "RuntimeError" ELSE "ok"

\* the pose (beta6, fx, fy) of a fit is a function of the correspondences it
\* was fitted to; the site calibration and the image size are fixed here
NoPose == [solved |-> FALSE, uv |-> <<>>]
Pose_stateful(uv) == [solved |-> TRUE, uv |-> IF params.solved THEN <<>> ELSE uv]
Pose(uv) == [solved |-> TRUE, uv |-> uv]

\* no pose fit yet; else the picks a Rectification object holds
\* (self.selected_gcps) and the correspondences it fitted (self.UV)
NoFit == [called |-> FALSE, uv |-> <<>>, sel |-> <<>>, out |-> ""]

(***************************************************************************)
(* ProcessingService.run_registration_and_rectification                    *)
(* (services/processing_service.py)                                        *)
(***************************************************************************)
InputFiles == {"control", "mask", "picks", "transects"}

Outputs == [registered |-> registered, rectified |-> rectified,
            params |-> params, shorelines |-> shorelines]

RECURSIVE SortedSeq(_)
SortedSeq(S) ==
    IF S = {} THEN <<>>
    ELSE LET m == CHOOSE x \in S : \A y \in S : x <= y
         IN <<m>> \o SortedSeq(S \ {m})

\* an exception leaves the try block: line 91 wraps it in a RuntimeError
Abort(e) ==
    /\ pc' = "error"
    /\ err' = e
    /\ result' = NotReturned

\* the inputs validated at the start of a run, lines 44-53
validated == {"control", "mask", "picks"}

\* lines 40-59: validate the inputs, load the mask, construct Registration
StartRun ==
    /\ pc \in {"idle", "done", "error"}
    /\ \E skip \in BOOLEAN : skip_mapping' = skip
    /\ before' = Outputs
    /\ fitted' = NoFit
    /\ rect_done' = {}
    /\ file_list' = <<>>
    /\ IF ~(validated \subseteq inputs)
       THEN /\ Abort("FileNotFoundError")
            /\ rpc' = rpc
       ELSE /\ pc' = "registration"
            /\ err' = ""
            /\ result' = NotReturned
            /\ rpc' = "start"
    /\ UNCHANGED <<match, homog, registered, match_counts, ridx, passed, visited,
                   reg_ret, ir>>
    /\ nfits' = 0
    /\ UNCHANGED fnVars
    /\ UNCHANGED <<inputs, picks, converges, rectified, params, shorelines,
                   unreadable, approved, prev>>

\* lines 62-74 and generate_rectifications lines 236-244: read the picks,
\* build uv_coordinates, construct Rectification (UV[0] of line 23 raises
\* IndexError on empty picks), list the Registered directory
LoadForRectification ==
    /\ pc = "registration"
    /\ rpc = "done"
    /\ rpc' = "idle"
    /\ IF \E i \in DOMAIN picks : ~has_keys(picks[i])
       THEN Abort("KeyError") /\ file_list' = file_list
       ELSE IF picks = <<>>
            THEN Abort("IndexError") /\ file_list' = file_list
            ELSE /\ pc' = "rectification"
                 /\ file_list' = SortedSeq(registered)
                 /\ UNCHANGED <<err, result>>
    /\ UNCHANGED <<match, homog, registered, match_counts, ridx, passed, visited,
                   reg_ret, ir>>
    /\ UNCHANGED fnVars
    /\ UNCHANGED <<inputs, picks, converges, skip_mapping, fitted, rect_done,
                   rectified, params, shorelines, before, unreadable, approved,
                   nfits, prev>>

\* rectify_image of the next registered photo, lines 54-230: a file that
\* cannot be read is skipped with a warning (lines 58-61); else fit the
\* pose, write the raster, and write the parameters unless the file exists
RectifyStep ==
    /\ pc = "rectification"
    /\ file_list # <<>>
    /\ LET p == Head(file_list)
           uv == uv_coordinates(picks)
           fit == curve_fit(uv) IN
       IF p \in unreadable
       THEN /\ file_list' = Tail(file_list)
            /\ UNCHANGED <<pc, err, result, fitted, rect_done, rectified, params,
                           nfits>>
       ELSE /\ fitted' = [called |-> TRUE, uv |-> uv, sel |-> picks, out |-> fit]
            /\ nfits' = nfits + 1
            /\ IF fit # "ok"
               THEN /\ Abort(fit)
                    /\ UNCHANGED <<file_list, rect_done, rectified, params>>
               ELSE /\ rectified' = [rectified EXCEPT ![p] = Pose(uv)]
                    /\ params' = IF params = NoPose THEN Pose(uv) ELSE params
                    /\ rect_done' = rect_done \cup {p}
                    /\ file_list' = Tail(file_list)
                    /\ UNCHANGED <<pc, err, result>>
    /\ UNCHANGED regVars
    /\ UNCHANGED fnVars
    /\ UNCHANGED <<inputs, picks, converges, skip_mapping, shorelines, before,
                   unreadable, approved, prev>>

\* what the run was given, and the rasters and shoreline records it leaves
RunInputs == [inputs |-> inputs, picks |-> picks, converges |-> converges,
              skip |-> skip_mapping]

NoRun == [valid |-> FALSE, ins |-> <<>>, rectified |-> <<>>, shorelines |-> {}]

Completed == [valid |-> TRUE, ins |-> RunInputs, rectified |-> rectified,
              shorelines |-> shorelines]

\* the keys of the dictionary the run returns, lines 76-87
ResultKeys(mapped) ==
    {"registration_complete", "rectification_complete",
     "shoreline_mapping_complete"}
    \cup (IF mapped THEN {"shoreline_results", "num_images"} ELSE {})

\* lines 76-89: every registered photo is rectified.  With skip_mapping the
\* run returns; otherwise run_shoreline_mapping starts (lines 102-118) and
\* lists the rasters of the Rectified directory, raising when there is none
RectificationDone ==
    /\ pc = "rectification"
    /\ file_list = <<>>
    /\ IF skip_mapping
       THEN /\ pc' = "done"
            /\ result' = [returned |-> TRUE, fields |-> ResultKeys(FALSE)]
            /\ prev' = Completed
            /\ UNCHANGED <<err, file_list>>
       ELSE IF \A p \in Photos : ~rectified[p].solved
            THEN Abort("FileNotFoundError") /\ UNCHANGED <<file_list, prev>>
            ELSE /\ pc' = "mapping"
                 /\ file_list' = SortedSeq({p \in Photos : rectified[p].solved})
                 /\ UNCHANGED <<err, result, prev>>
    /\ UNCHANGED regVars
    /\ UNCHANGED fnVars
    /\ UNCHANGED <<inputs, picks, converges, skip_mapping, fitted, rect_done,
                   rectified, params, shorelines, before, unreadable, approved,
                   nfits>>

\* run_shoreline_mapping, one raster (lines 120-175): mapSL raises
\* FileNotFoundError without the transects file (slmapping.py line 27),
\* else the shoreline record of the photo is saved, with 'approved': False,
\* over the record the photo had
MappingStep ==
    /\ pc = "mapping"
    /\ file_list # <<>>
    /\ IF "transects" \notin inputs
       THEN /\ Abort("FileNotFoundError")
            /\ UNCHANGED <<file_list, shorelines, approved>>
       ELSE /\ shorelines' = shorelines \cup {Head(file_list)}
            /\ approved' = approved \ {Head(file_list)}
            /\ file_list' = Tail(file_list)
            /\ UNCHANGED <<pc, err, result>>
    /\ UNCHANGED regVars
    /\ UNCHANGED fnVars
    /\ UNCHANGED <<inputs, picks, converges, skip_mapping, fitted, rect_done,
                   rectified, params, before, unreadable, nfits, prev>>

\* lines 84-89: the shoreline results join the dictionary, which is returned
MappingDone ==
    /\ pc = "mapping"
    /\ file_list = <<>>
    /\ pc' = "done"
    /\ result' = [returned |-> TRUE, fields |-> ResultKeys(TRUE)]
    /\ prev' = Completed
    /\ UNCHANGED regVars
    /\ UNCHANGED fnVars
    /\ UNCHANGED <<inputs, picks, converges, skip_mapping, err, file_list, fitted,
                   rect_done, rectified, params, shorelines, before, unreadable,
                   approved, nfits>>

\* GCPService.save_gcp_pixels (services/gcp_service.py lines 29-46), between
\* two runs: the user picks the GCPs again
SavePicks(ps) ==
    /\ pc \in {"idle", "done", "error"}
    /\ ps # picks
    /\ picks' = ps
    /\ inputs' = inputs \cup {"picks"}
    /\ converges' \in BOOLEAN
    /\ UNCHANGED regVars
    /\ UNCHANGED fnVars
    /\ UNCHANGED <<pc, skip_mapping, err, result, file_list, fitted, rect_done,
                   rectified, params, shorelines, before, unreadable, approved,
                   nfits, prev>>

\* ShorelineService.approve_shoreline (services/shoreline_service.py lines
\* 114-127), between two runs: the user approves the record of a photo
approve_shoreline(p) ==
    /\ pc \in {"idle", "done", "error"}
    /\ p \in shorelines
    /\ p \notin approved
    /\ approved' = approved \cup {p}
    /\ UNCHANGED regVars
    /\ UNCHANGED fnVars
    /\ UNCHANGED <<inputs, picks, converges, pc, skip_mapping, err, result,
                   file_list, fitted, rect_done, rectified, params, shorelines,
                   before, unreadable, nfits, prev>>

(***************************************************************************)
(* Rectifier sampling: rectify_image lines 106-112 and 160-205             *)
(* (imageprocessing/rectification.py)                                      *)
(***************************************************************************)
\* size of the aligned photo: NU columns, NV rows
NU == 2
NV == 2
\* cells of the world grid
NumCells == 2

Cells == 1..NumCells

\* im[row, column], 0-based as numpy indexes it
Pixels == (0..(NV - 1)) \X (0..(NU - 1))

\* values of a uint8 channel: black and white stand for 0..255
ColorValues == {0, 255}

\* photos with no black pixel or exactly one
Images ==
    {[px \in Pixels |-> 255]} \cup
    {[px \in Pixels |-> IF px = b THEN 0 ELSE 255] : b \in Pixels}

\* rounded projections: off-screen below, on-screen 1..NU x 1..NV,
\* off-screen above
Projections == (0..(NU + 1)) \X (0..(NV + 1))

\* onScreen(U, V, Umax, Vmax), lines 106-112, with Umin = Vmin = 1
onScreen(U, V, Umax, Vmax) ==
    (U >= 1) /\ (U <= Umax) /\ (V >= 1) /\ (V <= Vmax)

Clip(x, lo, hi) == IF x < lo THEN lo ELSE IF x > hi THEN hi ELSE x

\* np.ravel_multi_index([V, U], (NV, NU), mode='clip', order='F'), line 171:
\* each index is clipped into its dimension, the row index runs fastest
ravel_multi_index(V, U) == Clip(V, 0, NV - 1) + NV * Clip(U, 0, NU - 1)

\* I3 = np.reshape(im[:,:,i], (-1, 1), order='F'), line 177: flat index k is
\* row k mod NV of column k div NV
I3(k) == im[<<k % NV, k \div NV>>]

\* good (line 168): the cells whose rounded projection is on screen
good == {c \in Cells : onScreen(proj[c][1], proj[c][2], NU, NV)}

\* lines 160-205: sample the photo into the grid and write the raster.
\* images_sumI / N is the sampled value where N = 1 and NaN where N was 0;
\* astype(np.uint8) of NaN is undefined and gives what the build gives
RectifyImage ==
    /\ cpc = "ready"
    /\ ind' = [c \in Cells |-> IF c \in good
                                THEN ravel_multi_index(proj[c][2], proj[c][1])
                                ELSE -1]
    /\ images_N' = [c \in Cells |-> IF c \in good THEN 1 ELSE 0]
    /\ raster' = [c \in Cells |->
                    IF c \in good
                    THEN I3(ravel_multi_index(proj[c][2], proj[c][1]))
                    ELSE nan_cast]
    /\ cpc' = "written"
    /\ UNCHANGED <<im, proj, nan_cast>>
    /\ UNCHANGED <<regVars, runVars, threshVars, slVars, concVars, auxVars>>

RectUnused ==
    /\ im = [px \in Pixels |-> 255]
    /\ proj = [c \in Cells |-> <<1, 1>>]
    /\ nan_cast = 0
    /\ images_N = [c \in Cells |-> 0]
    /\ ind = [c \in Cells |-> -1]
    /\ raster = [c \in Cells |-> 0]
    /\ cpc = "none"

(***************************************************************************)
(* Classification threshold: mapSL.__init__ lines 82-96                    *)
(* (imageprocessing/slmapping.py)                                          *)
(***************************************************************************)
\* points of pdf_locs (400 in the code, line 83)
NumLocs == 5
\* largest density value
MaxDensity == 3

\* pdf_locs = np.linspace(RmBsample.min(), RmBsample.max(), ...): here the
\* red-minus-blue samples span -10 .. 10 * NumLocs - 20 in steps of 10
pdf_locs == [i \in 1..NumLocs |-> 10 * i - 20]

\* threshold_otsu gives the centre of a histogram bin that is not the last:
\* strictly between the smallest and the largest sample, on or off pdf_locs
OtsuValues == {5 * k - 20 : k \in 3..(2 * NumLocs - 1)}

\* I1 = np.argwhere(pdf_locs < thresh_otsu), I2 = np.argwhere(pdf_locs > thresh_otsu)
I1 == {i \in 1..NumLocs : pdf_locs[i] < thresh_otsu}
I2 == {i \in 1..NumLocs : pdf_locs[i] > thresh_otsu}

\* I[np.argmax(pdf_values[I])]: the first index of I with the largest density
argmax(I) ==
    CHOOSE i \in I : \A j \in I :
        pdf_values[j] < pdf_values[i] \/ (pdf_values[j] = pdf_values[i] /\ i <= j)

\* thresh_weightings = [1/3, 2/3], as numerators over the denominator 3
weight_wet == 1
weight_dry == 2

\* thresh = thresh_weightings[0]*RmBwet + thresh_weightings[1]*RmBdry, times 3
thresh_x3_wet_only(wet, dry) == (weight_wet + weight_dry) * wet
thresh_x3_mutant(wet, dry) == weight_dry * wet + weight_wet * dry
thresh_x3(wet, dry) == weight_wet * wet + weight_dry * dry

\* lines 86-96
ComputeThreshold ==
    /\ tpc = "ready"
    /\ RmBwet' = pdf_locs[argmax(I1)]
    /\ RmBdry' = pdf_locs[argmax(I2)]
    /\ thresh3' = thresh_x3(pdf_locs[argmax(I1)], pdf_locs[argmax(I2)])
    /\ tpc' = "done"
    /\ UNCHANGED <<pdf_values, thresh_otsu>>
    /\ UNCHANGED <<regVars, runVars, rectVars, slVars, concVars, auxVars>>

ThreshUnused ==
    /\ pdf_values = [i \in 1..NumLocs |-> 1]
    /\ thresh_otsu = 0
    /\ RmBwet = 0
    /\ RmBdry = 0
    /\ thresh3 = 0
    /\ tpc = "none"

(***************************************************************************)
(* Shoreline mapping: mapSL.__init__ lines 75-262                          *)
(* (imageprocessing/slmapping.py) and the record run_shoreline_mapping     *)
(* saves (services/processing_service.py lines 154-175)                    *)
(***************************************************************************)
\* transects of the site
NumTransects == 2
\* the world grid has the points (0..GridX) x (0..NumTransects), spacing 1
GridX == 4
\* most points of a contour
MaxPts == 2

Transects == 1..NumTransects

\* SLtransects: transect i runs seaward along x from its landward end
\* (1, i) to (GridX - 1, i); row 1 of the arrays is the landward end
transectsX(i) == <<1, GridX - 1>>
transectsY(i) == <<i, i>>

\* Xgrid, Ygrid as points
WorldPoints == (0..GridX) \X (0..NumTransects)

\* red-minus-blue profiles a transect can sample: all black, half black,
\* two colours, one colour
ProfileKinds == {<<0, 0>>, <<0, 5>>, <<5, 9>>, <<5, 5>>}

\* lines 75-80: the samples of all transects pooled, without the zeros
RECURSIVE Pool(_)
Pool(i) ==
    IF i = 0 THEN <<>>
    ELSE Pool(i - 1) \o SelectSeq(prof[i], LAMBDA v : v # 0)

RmBsample == Pool(NumTransects)

\* stats.gaussian_kde(RmBsample), line 82: refuses a dataset of fewer than
\* two elements (ValueError) and one whose covariance is singular, that is
\* whose samples are all equal (LinAlgError)
gaussian_kde(sample) ==
    IF Len(sample) < 2 THEN "ValueError"
    ELSE IF \A j \in DOMAIN sample : sample[j] = sample[1] THEN "LinAlgError"
         ELSE "ok"

\* contours of 1..MaxPts grid points (find_contours returns no empty contour)
RECURSIVE PointSeqs(_, _)
PointSeqs(S, n) ==
    IF n = 0 THEN {<<>>}
    ELSE LET shorter == PointSeqs(S, n - 1) IN
         shorter \cup {Append(q, pt) : q \in {r \in shorter : Len(r) = n - 1}, pt \in S}

Contours(S) == PointSeqs(S, MaxPts) \ {<<>>}

\* points on the diagonal of the grid, for lists of two contours
DiagPoints == {pt \in WorldPoints : pt[1] = pt[2] + 1}

\* what find_contours can return: no contour, one contour, two contours
ContourLists ==
    {<<>>} \cup {<<k>> : k \in Contours(WorldPoints)}
           \cup {<<k1, k2>> : k1 \in Contours(DiagPoints), k2 \in Contours(DiagPoints)}

\* longest_contour_loc = np.argmax(c_lengths), lines 117-120: the first of
\* the longest contours; np.argmax of an empty array raises ValueError
longest_contour_loc(cs) ==
    CHOOSE k \in DOMAIN cs : \A j \in DOMAIN cs :
        Len(cs[j]) < Len(cs[k]) \/ (Len(cs[j]) = Len(cs[k]) /\ k <= j)

\* slpoints, lines 121-130: the world points of the longest contour
slpoints(cs) == cs[longest_contour_loc(cs)]

\* points_rot, lines 138-148: the point in the frame of transect i.  The
\* transects run along +x, so angle = arctan2(0, dx) = 0 and the rotation
\* is the identity: (x along the transect from its landward end, offset)
points_rot(i, pt) == <<pt[1] - transectsX(i)[1], pt[2] - transectsY(i)[1]>>

\* max_distance, line 149: the length of the transect
max_distance(i) == transectsX(i)[2] - transectsX(i)[1]

\* the perpendicular tolerance of line 151, in world units
perp_tol == 1

\* I of line 151: the indexes of the points of pts that qualify on transect i
I_transect(i, pts) ==
    {k \in DOMAIN pts :
        /\ points_rot(i, pts[k])[2] > -perp_tol
        /\ points_rot(i, pts[k])[2] < perp_tol
        /\ points_rot(i, pts[k])[1] > 0
        /\ points_rot(i, pts[k])[1] < max_distance(i)}

\* candidate_idx = I[0, np.argmin(points_rot[I, 0])], lines 158-160: the
\* first qualifying point with the smallest x along the transect
candidate_idx(i, pts) ==
    CHOOSE k \in I_transect(i, pts) : \A j \in I_transect(i, pts) :
        \/ points_rot(i, pts[j])[1] > points_rot(i, pts[k])[1]
        \/ (points_rot(i, pts[j])[1] = points_rot(i, pts[k])[1] /\ k <= j)

\* a fix: world coordinates, or NaN in both
NaNFix == [def |-> FALSE, x |-> 0, y |-> 0]
Fix(pt) == [def |-> TRUE, x |-> pt[1], y |-> pt[2]]

\* lines 153-162: the candidate of transect i
candidate(i, pts) ==
    IF I_transect(i, pts) = {} THEN NaNFix ELSE Fix(pts[candidate_idx(i, pts)])

\* lines 164-183: the black test keeps the candidate unless the colour
\* difference 2 m seaward of it is 0 or lies outside the raster
black_test(i, fix) == IF fix.def /\ ~dark[i] THEN fix ELSE NaNFix

\* lines 197-259, the dry-sand pass: nothing without a shoreline fix, else
\* a point of the transect landward of the fix when a strong edge is found
dry_sand(i, fix) ==
    IF fix.def /\ strong_edge[i]
    THEN [def |-> TRUE, x |-> transectsX(i)[1], y |-> transectsY(i)[1]]
    ELSE NaNFix

NoFixes == [i \in Transects |-> NaNFix]

\* mapSL(cs_input, rectified_image, ...): lines 75-262
mapSL ==
    /\ mpc = "ready"
    /\ IF gaussian_kde(RmBsample) # "ok"
       THEN /\ merr' = gaussian_kde(RmBsample)
            /\ mpc' = "raised"
            /\ UNCHANGED <<cand, slx, dryx>>
       ELSE IF contours = <<>>
            THEN /\ merr' = "ValueError"
                 /\ mpc' = "raised"
                 /\ UNCHANGED <<cand, slx, dryx>>
            ELSE /\ cand' = [i \in Transects |-> candidate(i, slpoints(contours))]
                 /\ slx' = [i \in Transects |->
                              black_test(i, candidate(i, slpoints(contours)))]
                 /\ dryx' = [i \in Transects |->
                               dry_sand(i, black_test(i, candidate(i, slpoints(contours))))]
                 /\ mpc' = "done"
                 /\ merr' = ""
    /\ UNCHANGED <<prof, contours, dark, strong_edge, sl_record>>
    /\ UNCHANGED <<regVars, runVars, rectVars, threshVars, concVars, auxVars>>

\* the keys of shoreline_data, processing_service.py lines 155-169
shoreline_data_keys ==
    {"image_index", "filename", "identifier", "shoreline_points",
     "utm_coordinates", "pixel_coordinates", "approved"}

\* the attributes of the mapper the values of shoreline_data are read from
shoreline_data_attrs == {"slpoints", "UTMx", "UTMy", "x", "y"}

NoRecord == [saved |-> FALSE, fields |-> {}, attrs |-> {}, approved |-> FALSE,
             utm |-> NoFixes]

\* processing_service.py lines 154-175: the record of the raster is built
\* from the mapper and saved as shoreline_<name>.json
SaveShoreline ==
    /\ mpc = "done"
    /\ sl_record' = [saved |-> TRUE, fields |-> shoreline_data_keys,
                     attrs |-> shoreline_data_attrs, approved |-> FALSE,
                     utm |-> slx]
    /\ mpc' = "saved"
    /\ UNCHANGED <<prof, contours, dark, strong_edge, cand, slx, dryx, merr>>
    /\ UNCHANGED <<regVars, runVars, rectVars, threshVars, concVars, auxVars>>

SLUnused ==
    /\ prof = [i \in Transects |-> <<0, 0>>]
    /\ contours = <<>>
    /\ dark = [i \in Transects |-> FALSE]
    /\ strong_edge = [i \in Transects |-> FALSE]
    /\ cand = NoFixes
    /\ slx = NoFixes
    /\ dryx = NoFixes
    /\ merr = ""
    /\ mpc = "none"
    /\ sl_record = NoRecord

(***************************************************************************)
(* Concurrent requests: the Flask server of app.py (app.run, line 760)     *)
(* serves every request on a thread of its own; all requests share the one *)
(* SiteManager and the one ProcessingService of the process                *)
(***************************************************************************)
\* request threads running /api/run_processing
NumRequests == 2

Requests == 1..NumRequests

\* the sites of sites.json
Sites == {"siteA", "siteB"}

\* a request that is not running: the sites it read from and wrote to,
\* and the site names it holds in local variables and objects
IdleRequest == [pc |-> "idle", skip |-> FALSE, site0 |-> "", db_site |-> "",
                map_site |-> "", reads |-> {}, writes |-> {}]

\* run_processing (app.py lines 329-334) calls
\* run_registration_and_rectification, which takes the paths of the control
\* photo, the mask and the picks from the site manager (lines 44-46),
\* validates them and constructs Registration on site_manager.site_dir
\* (line 58): model inference starts, on the site that is current now
ReqStart(r) ==
    /\ rq[r].pc = "idle"
    /\ \E skip \in BOOLEAN :
          rq' = [rq EXCEPT ![r] = [pc |-> "registration", skip |-> skip,
                                   site0 |-> current_site, db_site |-> "",
                                   map_site |-> "",
                                   reads |-> {current_site}, writes |-> {}]]
    /\ UNCHANGED current_site
    /\ UNCHANGED <<regVars, runVars, rectVars, threshVars, slVars, auxVars>>

\* generate_registrations returns: it wrote into Registered/ of the site
\* directory it was constructed with.  Lines 65-73: the calibration is read
\* for site_manager.current_site as it is now, the picks from the path taken
\* at the start, and Rectification is constructed on that calibration
ReqRegistered(r) ==
    /\ rq[r].pc = "registration"
    /\ rq' = [rq EXCEPT ![r].pc = "rectification",
                        ![r].db_site = current_site,
                        ![r].writes = @ \cup {rq[r].site0},
                        ![r].reads = @ \cup {current_site}]
    /\ UNCHANGED current_site
    /\ UNCHANGED <<regVars, runVars, rectVars, threshVars, slVars, auxVars>>

\* generate_rectifications returns (line 74): it solved the pose, read
\* <sitename>/Registered and wrote <sitename>/Rectified of the calibration's
\* site (rectification.py lines 29 and 236).  With skip_mapping the run
\* returns; else run_shoreline_mapping takes rectified_dir and shoreline_dir
\* of the site that is current now (lines 103-111)
ReqRectified(r) ==
    /\ rq[r].pc = "rectification"
    /\ rq' = [rq EXCEPT ![r].pc = IF rq[r].skip THEN "done" ELSE "mapping",
                        ![r].map_site = IF rq[r].skip THEN "" ELSE current_site,
                        ![r].writes = @ \cup {rq[r].db_site},
                        ![r].reads = @ \cup {rq[r].db_site} \cup
                                     (IF rq[r].skip THEN {} ELSE {current_site})]
    /\ UNCHANGED current_site
    /\ UNCHANGED <<regVars, runVars, rectVars, threshVars, slVars, auxVars>>

\* the loop of run_shoreline_mapping over the rasters (lines 120-175): the
\* transects path is taken from the site that is current now (lines
\* 139-142), the records go to the shoreline_dir taken at line 104
ReqMapped(r) ==
    /\ rq[r].pc = "mapping"
    /\ rq' = [rq EXCEPT ![r].pc = "done",
                        ![r].reads = @ \cup {rq[r].map_site, current_site},
                        ![r].writes = @ \cup {rq[r].map_site}]
    /\ UNCHANGED current_site
    /\ UNCHANGED <<regVars, runVars, rectVars, threshVars, slVars, auxVars>>

\* the response is sent (app.py lines 336-346)
ReqReturn(r) ==
    /\ rq[r].pc = "done"
    /\ rq' = [rq EXCEPT ![r] = IdleRequest]
    /\ UNCHANGED current_site
    /\ UNCHANGED <<regVars, runVars, rectVars, threshVars, slVars, auxVars>>

\* SiteManager.set_site (services/site_manager.py lines 95-101), from
\* /api/set_site, /api/add_site, the download and the site-metrics handlers
set_site(site_name) ==
    /\ site_name # current_site
    /\ current_site' = site_name
    /\ UNCHANGED rq
    /\ UNCHANGED <<regVars, runVars, rectVars, threshVars, slVars, auxVars>>

ConcUnused ==
    /\ current_site = "siteA"
    /\ rq = [r \in Requests |-> IdleRequest]

(***************************************************************************)
(* The mask filter of Registration: point_in_mask, count_matches and       *)
(* get_filtered_keypoints (imageprocessing/registration.py lines 28-76)    *)
(***************************************************************************)
\* size of the control photo and of its mask: MaskW columns, MaskH rows
MaskW == 3
MaskH == 2
\* most matched pairs of a photo
MaxPairs == 2

MaskPixels == (0..(MaskH - 1)) \X (0..(MaskW - 1))

\* masks: everything inside, one pixel outside, one pixel inside
Masks ==
    {[px \in MaskPixels |-> 255]} \cup
    {[px \in MaskPixels |-> IF px = h THEN 0 ELSE 255] : h \in MaskPixels} \cup
    {[px \in MaskPixels |-> IF px = h THEN 255 ELSE 0] : h \in MaskPixels}

\* keypoint coordinates (x, y) in half pixels: from one pixel left of the
\* photo to one pixel right of it, and the same in y
HalfCoords == ((-2)..(2 * MaskW)) \X ((-2)..(2 * MaskH))

\* m_kpts0 of up to MaxPairs matches
RECURSIVE KeypointSeqs(_)
KeypointSeqs(n) ==
    IF n = 0 THEN {<<>>}
    ELSE LET shorter == KeypointSeqs(n - 1) IN
         shorter \cup {Append(q, pt) : q \in {r \in shorter : Len(r) = n - 1},
                                       pt \in HalfCoords}

\* int(round(x)) of Python for x = h / 2: halves go to the even neighbour
round(h) ==
    LET q == h \div 2 IN
    IF h % 2 = 0 THEN q ELSE IF q % 2 = 0 THEN q ELSE q + 1

\* mask[y, x] of numpy: an index from -size to -1 counts from the end, any
\* other index outside 0..size-1 raises IndexError
mask_index(k, size) ==
    IF k >= 0 /\ k < size THEN [kind |-> "ok", at |-> k]
    ELSE IF k < 0 /\ k >= -size THEN [kind |-> "wrapped", at |-> k + size]
         ELSE [kind |-> "IndexError", at |-> 0]

\* point_in_mask(mask, coordinate), lines 28-34: how the mask was accessed
\* and, unless that raised, whether the value is non-zero
point_in_mask_swapped(msk, coordinate) ==
    LET col == mask_index(round(coordinate[2]), MaskW)
        row == mask_index(round(coordinate[1]), MaskH) IN
    IF row.kind = "IndexError" \/ col.kind = "IndexError"
    THEN [kind |-> "IndexError", inside |-> FALSE]
    ELSE [kind |-> IF row.kind = "wrapped" \/ col.kind = "wrapped"
                   THEN "wrapped" ELSE "ok",
          inside |-> msk[<<row.at, col.at>>] # 0]
point_in_mask(msk, coordinate) ==
    LET col == mask_index(round(coordinate[1]), MaskW)
        row == mask_index(round(coordinate[2]), MaskH) IN
    IF row.kind = "IndexError" \/ col.kind = "IndexError"
    THEN [kind |-> "IndexError", inside |-> FALSE]
    ELSE [kind |-> IF row.kind = "wrapped" \/ col.kind = "wrapped"
                   THEN "wrapped" ELSE "ok",
          inside |-> msk[<<row.at, col.at>>] # 0]

\* the loops of lines 47-51 and 69-72 stop at the first access that raises
Raises(pts) == \E k \in DOMAIN pts : point_in_mask(mask, pts[k]).kind = "IndexError"

Wraps(pts) == \E k \in DOMAIN pts : point_in_mask(mask, pts[k]).kind = "wrapped"

Access(pts) ==
    IF Raises(pts) THEN "IndexError" ELSE IF Wraps(pts) THEN "wrapped" ELSE "ok"

Worse(a, b) ==
    IF "IndexError" \in {a, b} THEN "IndexError"
    ELSE IF "wrapped" \in {a, b} THEN "wrapped" ELSE "ok"

\* the indexes of the matches that pass the mask
InMask(pts) == {k \in DOMAIN pts : point_in_mask(mask, pts[k]).inside}

\* the elements of sq at the indexes of S, in order
RECURSIVE Pick(_, _, _)
Pick(sq, S, k) ==
    IF k > Len(sq) THEN <<>>
    ELSE (IF k \in S THEN <<sq[k]>> ELSE <<>>) \o Pick(sq, S, k + 1)

\* count_matches(image_path), lines 36-52
CountMatches ==
    /\ "count" \notin kpc
    /\ kpc' = kpc \cup {"count"}
    /\ mask_access' = Worse(mask_access, Access(m_kpts0))
    /\ count' = IF Raises(m_kpts0) THEN count ELSE Cardinality(InMask(m_kpts0))
    /\ UNCHANGED <<mask, m_kpts0, m_kpts1, kps0, kps1>>
    /\ UNCHANGED notMask

\* get_filtered_keypoints(image_path), lines 54-76
FilterKeypoints ==
    /\ "filter" \notin kpc
    /\ kpc' = kpc \cup {"filter"}
    /\ mask_access' = Worse(mask_access, Access(m_kpts0))
    /\ IF Raises(m_kpts0)
       THEN UNCHANGED <<kps0, kps1>>
       ELSE /\ kps0' = Pick(m_kpts0, InMask(m_kpts0), 1)
            /\ kps1' = Pick(m_kpts1, InMask(m_kpts0), 1)
    /\ UNCHANGED <<mask, m_kpts0, m_kpts1, count>>
    /\ UNCHANGED notMask

MaskUnused ==
    /\ mask = [px \in MaskPixels |-> 255]
    /\ m_kpts0 = <<>>
    /\ m_kpts1 = <<>>
    /\ kps0 = <<>>
    /\ kps1 = <<>>
    /\ count = -1
    /\ mask_access = "ok"
    /\ kpc = {}

(***************************************************************************)
(* Focal-length candidates of the pose search: rectify_image lines 120-128 *)
(* (imageprocessing/rectification.py)                                      *)
(***************************************************************************)
\* the largest focal length of the lookup grid A (500000 in the code)
FxTop == 40

\* the candidates are 5 pixel-units apart, and so are the points of A,
\* which start at 5
fx_step == 5

\* A = np.arange(5, 500005, 5), line 120
A_first == fx_step
A_last == fx_step * (FxTop \div fx_step)

\* interpolate.interp1d(A, B, kind='nearest')(v), lines 125-126, with B = A:
\* the point of A nearest to v; a v outside [A[0], A[-1]] raises ValueError
nearest(v) == fx_step * ((v + 2) \div fx_step)

in_A_range(v) == v >= A_first /\ v <= A_last

\* np.arange(fx_min, fx_max + 5, 5), line 128
RECURSIVE arange(_, _)
arange(from, to) ==
    IF from >= to THEN <<>> ELSE <<from>> \o arange(from + fx_step, to)

\* lines 120-128
FocalCandidates ==
    /\ fpc = "ready"
    /\ fpc' = "done"
    /\ IF in_A_range(fx_lo) /\ in_A_range(fx_hi)
       THEN /\ fx_all' = arange(nearest(fx_lo), nearest(fx_hi) + fx_step)
            /\ fx_err' = ""
       ELSE /\ fx_all' = <<>>
            /\ fx_err' = "ValueError"
    /\ UNCHANGED <<fx_lo, fx_hi>>
    /\ UNCHANGED notFocal

FocalUnused ==
    /\ fx_lo = A_first
    /\ fx_hi = A_first
    /\ fx_all = <<>>
    /\ fx_err = ""
    /\ fpc = "none"

(***************************************************************************)
(* The black test of mapSL on one transect (imageprocessing/slmapping.py   *)
(* lines 164-183) over the world grid of readDB (lines 59-85)              *)
(***************************************************************************)
MaxXSpan == 5
MaxYSpan == 2
MaxSpacing == 2
Origins == {0, 1}

\* readDB.x, readDB.y: np.arange(lim[0], lim[1] + dxdy, dxdy) has
\* ceil((lim[1] - lim[0]) / dxdy) + 1 nodes, node k at lim[0] + k * dxdy
grid_size(lim, d) == ((lim[2] - lim[1]) + d - 1) \div d + 1

grid_node(lim, d, k) == lim[1] + k * d

\* np.round(n / d) for d > 0: to the nearest integer, halves to even
round_half_even(n, d) ==
    LET fl == (2 * n + d) \div (2 * d)
    IN  IF (2 * n + d) % (2 * d) = 0 /\ fl % 2 = 1 THEN fl - 1 ELSE fl

\* the world-to-cell mapping of the world grid, as the profiles are sampled
\* (lines 63-64): world coordinate w is at index (w - lim[0]) / dxdy
world_to_cell(w, lim, d) == round_half_even(w - lim[1], d)

\* lines 172-175: int(np.round((w - lim[0]) / (lim[1] - lim[0]) * (size - 1)))
probe_idx(w, lim, size) ==
    round_half_even((w - lim[1]) * (size - 1), lim[2] - lim[1])

\* line 166
blacktest_tol == 2

\* lines 167-169 for a transect along +x: the point blacktest_tol further
\* seaward of the candidate
test_unrot(cnd) == <<cnd[1] + blacktest_tol, cnd[2]>>

RasterCells(xl, yl, d) ==
    (0..(grid_size(yl, d) - 1)) \X (0..(grid_size(xl, d) - 1))

\* a raster value: a number, or NaN where the pixel is masked
Value(n) == [nan |-> FALSE, v |-> n]
NaNValue == [nan |-> TRUE, v |-> 0]

\* the rasters: R - B is 1 everywhere but at one cell at most, where it is 0
\* (black border) or NaN (masked)
Rasters(xl, yl, d) ==
    {[cell \in RasterCells(xl, yl, d) |-> Value(1)]} \cup
    {[cell \in RasterCells(xl, yl, d) |-> IF cell = sc THEN sv ELSE Value(1)] :
        sc \in RasterCells(xl, yl, d), sv \in {Value(0), NaNValue}}

\* not np.isclose(val, 0, atol=1e-6), line 178: a NaN is not close to 0
not_isclose_zero(val) == val.nan \/ val.v # 0

\* lines 164-183
BlackTest ==
    /\ bpc = "ready"
    /\ bpc' = "done"
    /\ LET shape == <<grid_size(ylim, dxdy), grid_size(xlim, dxdy)>>
           tp == test_unrot(bt_cand)
           ri == probe_idx(tp[2], ylim, shape[1])
           ci == probe_idx(tp[1], xlim, shape[2])
       IN  /\ row_idx' = ri
           /\ col_idx' = ci
           /\ bt_kept' = (/\ 0 <= ri /\ ri < shape[1]
                          /\ 0 <= ci /\ ci < shape[2]
                          /\ not_isclose_zero(RminusBdouble[<<ri, ci>>]))
    /\ UNCHANGED <<xlim, ylim, dxdy, RminusBdouble, bt_cand>>
    /\ UNCHANGED notProbe

ProbeUnused ==
    /\ xlim = <<0, 1>>
    /\ ylim = <<0, 1>>
    /\ dxdy = 1
    /\ RminusBdouble = <<>>
    /\ bt_cand = <<0, 0>>
    /\ row_idx = 0
    /\ col_idx = 0
    /\ bt_kept = FALSE
    /\ bpc = "none"

(***************************************************************************)
(* The dry-sand pass of mapSL on one transect that has a shoreline fix     *)
(* (imageprocessing/slmapping.py lines 205-259)                            *)
(***************************************************************************)
MaxInland == 12

\* line 236: fewer valid inland samples than this and the transect is skipped
min_valid == 10

\* line 247
grad_threshold == 5

\* the brightness of dry sand in the profiles, and the drops toward the sea
Bright == 200
StepHeights == {0, 10, 16, 20, 200}

\* gaussian_filter1d(., sigma=1), line 242: the kernel exp(-k^2 / 2) for
\* k = 0..4 (truncate = 4), normalised, in units of 1 / gauss_scale
gauss_w == <<39894, 24197, 5400, 443, 13>>
gauss_scale == gauss_w[1] + 2 * (gauss_w[2] + gauss_w[3] + gauss_w[4] + gauss_w[5])

\* the filter's default boundary mode, reflect: d c b a | a b c d | d c b a
reflect(j, n) == IF j < 1 THEN 1 - j ELSE IF j > n THEN 2 * n + 1 - j ELSE j

Taps == (-4)..4
tap_dist(t) == IF t < 0 THEN 0 - t ELSE t

RECURSIVE TapSum(_, _, _)
TapSum(V, j, taps) ==
    IF taps = {} THEN 0
    ELSE LET t == CHOOSE t \in taps : TRUE
         IN  gauss_w[tap_dist(t) + 1] * V[reflect(j + t, Len(V))].v
                 + TapSum(V, j, taps \ {t})

\* V_smooth, in units of 1 / gauss_scale; a NaN under any tap gives NaN
gaussian_filter1d(V) ==
    [j \in 1..Len(V) |->
        IF \E t \in Taps : V[reflect(j + t, Len(V))].nan THEN NaNValue
        ELSE Value(TapSum(V, j, Taps))]

Diff(a, b, times) ==
    IF a.nan \/ b.nan THEN NaNValue ELSE Value(times * (a.v - b.v))

\* np.gradient, line 243, doubled: central differences inside, one-sided
\* differences at both ends
gradient2(S) ==
    [j \in 1..Len(S) |->
        IF j = 1 THEN Diff(S[2], S[1], 2)
        ELSE IF j = Len(S) THEN Diff(S[j], S[j - 1], 2)
        ELSE Diff(S[j + 1], S[j - 1], 1)]

\* landward_dV = -dV, line 244 (doubled)
landward_dV(V) ==
    LET g == gradient2(gaussian_filter1d(V))
    IN  [j \in 1..Len(V) |-> Diff(Value(0), g[j], 1)]

\* np.argmax, line 246: the first NaN if there is one, else the first maximum
argmax_nan(L) ==
    IF \E j \in DOMAIN L : L[j].nan
    THEN CHOOSE j \in DOMAIN L : L[j].nan /\ \A m \in 1..(j - 1) : ~L[m].nan
    ELSE CHOOSE j \in DOMAIN L :
             /\ \A m \in DOMAIN L : L[m].v <= L[j].v
             /\ \A m \in 1..(j - 1) : L[m].v < L[j].v

\* landward_dV[idx_edge] < grad_threshold, line 248: false for a NaN
below_grad_threshold(val) ==
    ~val.nan /\ val.v < 2 * grad_threshold * gauss_scale

valid_size(V) == Cardinality({j \in DOMAIN V : ~V[j].nan})

\* lines 219-259 for one transect; s_idx = Len(inland_prof) and V_prof has
\* at least the sample of the fix besides
DrySand ==
    /\ gpc = "ready"
    /\ gpc' = "done"
    /\ IF \/ Len(inland_prof) + 1 < 5
          \/ Len(inland_prof) <= 2
          \/ valid_size(inland_prof) < min_valid
       THEN /\ dry_defined' = FALSE
            /\ trans_idx' = 0
       ELSE LET L == landward_dV(inland_prof)
                idx_edge == argmax_nan(L)
            IN  IF below_grad_threshold(L[idx_edge])
                THEN /\ dry_defined' = FALSE
                     /\ trans_idx' = 0
                ELSE /\ dry_defined' = TRUE
                     /\ trans_idx' = idx_edge
    /\ UNCHANGED inland_prof
    /\ UNCHANGED notGrad

GradUnused ==
    /\ inland_prof = <<>>
    /\ dry_defined = FALSE
    /\ trans_idx = 0
    /\ gpc = "none"

(***************************************************************************)
(* The shoreline records on disk: run_shoreline_mapping                    *)
(* (services/processing_service.py lines 95-182) and ShorelineService      *)
(* (services/shoreline_service.py lines 26-128)                            *)
(***************************************************************************)
\* the names a rectified photo can have, rectified_<n>.png
FileNumbers == {0, 1, 2, 10}

\* the image indices a request can carry
MaxIndex == 2
Indices == 0..MaxIndex

\* shoreline_<n>.json is shoreline_{identifier}.json of photo n and
\* shoreline_{image_index}.json of index n
Keys == FileNumbers \cup Indices

\* a record: mapped = it has the keys written by the mapping (filename,
\* identifier, utm_coordinates, pixel_coordinates); points = the value of
\* shoreline_points, "none" without the key; edited = it has the keys edited
\* and last_edited; approved = the value of the key approved, read with the
\* default False
NoFile ==
    [exists |-> FALSE, mapped |-> FALSE, points |-> "none", edited |-> FALSE,
     approved |-> FALSE]

\* utils/file_utils.py lines 23-50, list_image_files: natural order, the
\* numbers of the names compared as integers
list_image_files == SortedSeq(rect_files)

\* the decimal digits of n
RECURSIVE Digits(_)
Digits(n) == IF n < 10 THEN <<n>> ELSE Append(Digits(n \div 10), n % 10)

\* rectified_<a>.png < rectified_<b>.png as Python compares strings: at the
\* first difference, and "." is smaller than every digit
RECURSIVE StrLess(_, _)
StrLess(a, b) ==
    IF a = <<>> THEN b # <<>>
    ELSE IF b = <<>> THEN FALSE
    ELSE IF Head(a) # Head(b) THEN Head(a) < Head(b)
    ELSE StrLess(Tail(a), Tail(b))

\* sorted(os.listdir(rectified_dir)), shoreline_service.py lines 38-39
RECURSIVE sorted(_)
sorted(S) ==
    IF S = {} THEN <<>>
    ELSE LET m == CHOOSE x \in S :
                      \A y \in S \ {x} : StrLess(Digits(x), Digits(y))
         IN  <<m>> \o sorted(S \ {m})

\* shoreline_service.py lines 26-50, _get_shoreline_filename
get_shoreline_filename(files, image_index) ==
    IF store[image_index].exists THEN image_index
    ELSE IF image_index < Len(sorted(files))
              /\ store[sorted(files)[image_index + 1]].exists
         THEN sorted(files)[image_index + 1]
         ELSE image_index

\* processing_service.py lines 120-175: a record for every rectified photo,
\* written whole, under the photo's identifier
run_shoreline_mapping ==
    /\ store' = [n \in Keys |->
                    IF n \in rect_files
                    THEN [exists |-> TRUE, mapped |-> TRUE, points |-> "detected",
                          edited |-> FALSE, approved |-> FALSE]
                    ELSE store[n]]
    /\ UNCHANGED rect_files
    /\ UNCHANGED notStore

\* shoreline_service.py lines 62-93
save_edited_shoreline(image_index, pts) ==
    LET shoreline_file == get_shoreline_filename(rect_files, image_index)
        original_data == store[shoreline_file]
    IN  /\ store' = [store EXCEPT ![shoreline_file] =
                        [original_data EXCEPT !.exists = TRUE, !.points = pts,
                                              !.edited = TRUE]]
        /\ UNCHANGED rect_files
        /\ UNCHANGED notStore

\* shoreline_service.py lines 95-112; FileNotFoundError changes nothing
reset_shoreline(image_index) ==
    LET shoreline_file == get_shoreline_filename(rect_files, image_index)
    IN  /\ store[shoreline_file].exists
        /\ store' = [store EXCEPT ![shoreline_file] =
                        [@ EXCEPT !.points = "none", !.edited = FALSE]]
        /\ UNCHANGED rect_files
        /\ UNCHANGED notStore

\* shoreline_service.py lines 114-128; FileNotFoundError changes nothing
approve_shoreline_file(image_index) ==
    LET shoreline_file == get_shoreline_filename(rect_files, image_index)
    IN  /\ store[shoreline_file].exists
        /\ store' = [store EXCEPT ![shoreline_file] = [@ EXCEPT !.approved = TRUE]]
        /\ UNCHANGED rect_files
        /\ UNCHANGED notStore

StoreUnused ==
    /\ rect_files = {}
    /\ store = <<>>

(***************************************************************************)
(* SiteManager (services/site_manager.py) and the metrics endpoints of     *)
(* app.py (lines 584-656)                                                  *)
(***************************************************************************)
SiteNames == {"manly", "siteA", "siteB"}
RootIds == {1, 2}

\* an entry of the registry
SiteEntry(site_name, root_id, done) ==
    [name |-> site_name, root_id |-> root_id, setup_complete |-> done]

\* the keys of a registry
SiteKeys(reg) == {reg[k].name : k \in DOMAIN reg}

KeyIndex(reg, site_name) == CHOOSE k \in DOMAIN reg : reg[k].name = site_name

\* del reg[site_name]
DelKey(reg, site_name) == SelectSeq(reg, LAMBDA e : e.name # site_name)

\* reg[site_name] = entry: an existing key keeps its place, a new one is last
PutKey(reg, entry) ==
    IF entry.name \in SiteKeys(reg)
    THEN [reg EXCEPT ![KeyIndex(reg, entry.name)] = entry]
    ELSE Append(reg, entry)

\* the registries a sites.json can hold
Registries ==
    {reg \in UNION {[1..n -> {SiteEntry(s, rid, d) :
                                 s \in SiteNames, rid \in RootIds, d \in BOOLEAN}] :
                       n \in 0..Cardinality(SiteNames)} :
        \A k, m \in DOMAIN reg : k # m => reg[k].name # reg[m].name}

\* lines 78-93, add_site; saved = whether _save_sites (lines 43-50) succeeds
SiteManager_add_site(site_name, root_id, saved) ==
    /\ sites' = IF saved THEN PutKey(sites, SiteEntry(site_name, root_id, FALSE))
                ELSE DelKey(PutKey(sites, SiteEntry(site_name, root_id, FALSE)),
                            site_name)
    /\ UNCHANGED <<sm_current_site, site_dir>>
    /\ UNCHANGED notSites

\* lines 95-101, set_site with _update_paths (lines 52-62); ValueError for an
\* unknown site changes nothing
SiteManager_set_site(site_name) ==
    /\ site_name \in SiteKeys(sites)
    /\ sm_current_site' = site_name
    /\ site_dir' = site_name
    /\ UNCHANGED sites
    /\ UNCHANGED notSites

\* lines 112-120, mark_setup_complete; the entry is changed before
\* _save_sites is tried
mark_setup_complete(site_name) ==
    /\ site_name \in SiteKeys(sites)
    /\ sites' = [sites EXCEPT ![KeyIndex(sites, site_name)].setup_complete = TRUE]
    /\ UNCHANGED <<sm_current_site, site_dir>>
    /\ UNCHANGED notSites

\* lines 151-179, delete_site; saved = whether _save_sites succeeds: if it
\* raises, lines 170-177 are not reached
SiteManager_delete_site(site_name, saved) ==
    /\ site_name \in SiteKeys(sites)
    /\ sites' = DelKey(sites, site_name)
    /\ IF saved /\ sm_current_site = site_name
       THEN IF sites' # <<>>
            THEN /\ sm_current_site' = sites'[1].name
                 /\ site_dir' = sites'[1].name
            ELSE /\ sm_current_site' = "None"
                 /\ UNCHANGED site_dir
       ELSE UNCHANGED <<sm_current_site, site_dir>>
    /\ UNCHANGED notSites

\* app.py lines 584-614, get_site_metrics; raised = whether
\* calculate_site_metrics raises (a directory that cannot be listed, a file
\* removed between os.listdir and os.path.getmtime)
get_site_metrics(site_name, raised) ==
    /\ site_name \in SiteKeys(sites)
    /\ LET previous_site == sm_current_site
       IN  IF ~raised /\ previous_site \in SiteKeys(sites)
           THEN /\ sm_current_site' = previous_site
                /\ site_dir' = previous_site
           ELSE /\ sm_current_site' = site_name
                /\ site_dir' = site_name
    /\ UNCHANGED sites
    /\ UNCHANGED notSites

\* app.py lines 617-656, get_all_site_metrics; an exception of
\* calculate_site_metrics is caught inside the loop
get_all_site_metrics ==
    /\ sites # <<>>
    /\ IF sm_current_site # "None" /\ sm_current_site \in SiteKeys(sites)
       THEN /\ sm_current_site' = sm_current_site
            /\ site_dir' = sm_current_site
       ELSE /\ sm_current_site' = sites[Len(sites)].name
            /\ site_dir' = sites[Len(sites)].name
    /\ UNCHANGED sites
    /\ UNCHANGED notSites

SitesUnused ==
    /\ sites = <<>>
    /\ sm_current_site = "None"
    /\ site_dir = "manly"

\* the groups of variables a specification does not use, all but group g
AuxUnusedBut(g) ==
    /\ IF g = "mask" THEN TRUE ELSE MaskUnused
    /\ IF g = "focal" THEN TRUE ELSE FocalUnused
    /\ IF g = "probe" THEN TRUE ELSE ProbeUnused
    /\ IF g = "grad" THEN TRUE ELSE GradUnused
    /\ IF g = "store" THEN TRUE ELSE StoreUnused
    /\ IF g = "sites" THEN TRUE ELSE SitesUnused

AuxUnused == AuxUnusedBut("none")

\* the variables of the site-run while only Registration is looked at
RunUnused ==
    /\ inputs = InputFiles
    /\ picks = PlainPicks(NumGCP, "10")
    /\ converges = TRUE
    /\ pc = "none"
    /\ skip_mapping = FALSE
    /\ err = ""
    /\ result = NotReturned
    /\ file_list = <<>>
    /\ fitted = NoFit
    /\ rect_done = {}
    /\ rectified = [p \in Photos |-> NoPose]
    /\ params = NoPose
    /\ shorelines = {}
    /\ before = Outputs
    /\ unreadable = {}
    /\ approved = {}
    /\ nfits = 0
    /\ prev = NoRun

(***************************************************************************)
(* SpecIR: image_registration on photos with 0..MaxKps correspondences    *)
(***************************************************************************)
InitIR ==
    /\ match \in [Photos -> MatchCounts]
    /\ homog \in [Photos -> BOOLEAN]
    /\ registered = {}
    /\ match_counts = <<>>
    /\ rpc = "idle"
    /\ ridx = 1
    /\ passed = {}
    /\ visited = {}
    /\ reg_ret = NotReturned
    /\ ir = NoCall
    /\ RunUnused
    /\ RectUnused
    /\ ThreshUnused
    /\ SLUnused
    /\ ConcUnused
    /\ AuxUnused

NextIR == \E p \in Photos, n \in 0..MaxKps : CallImageRegistration(p, n)

SpecIR == InitIR /\ [][NextIR]_vars

(***************************************************************************)
(* SpecReg: one batch of generate_registrations                            *)
(***************************************************************************)
InitReg ==
    /\ match \in [Photos -> MatchCounts]
    /\ homog \in [Photos -> BOOLEAN]
    /\ registered = {}
    /\ match_counts = <<>>
    /\ rpc = "start"
    /\ ridx = 1
    /\ passed = {}
    /\ visited = {}
    /\ reg_ret = NotReturned
    /\ ir = NoCall
    /\ RunUnused
    /\ RectUnused
    /\ ThreshUnused
    /\ SLUnused
    /\ ConcUnused
    /\ AuxUnused

NextReg ==
    \/ FirstPass
    \/ SecondPassSkip
    \/ SecondPassRegister
    \/ SecondPassEnd

SpecReg == InitReg /\ [][NextReg]_vars

(***************************************************************************)
(* Spec: site-runs on a site whose input files may be missing              *)
(* SpecPose: site-runs on a site with all inputs and any saved picks       *)
(***************************************************************************)
\* match counts of the photos of a site-run: one below the minimum, one at it
RunMatchCounts == {3, 4}

InitRun ==
    /\ match \in [Photos -> RunMatchCounts]
    /\ homog = [p \in Photos |-> TRUE]
    /\ registered = {}
    /\ match_counts = <<>>
    /\ rpc = "idle"
    /\ ridx = 1
    /\ passed = {}
    /\ visited = {}
    /\ reg_ret = NotReturned
    /\ ir = NoCall
    /\ converges \in BOOLEAN
    /\ pc = "idle"
    /\ skip_mapping = FALSE
    /\ err = ""
    /\ result = NotReturned
    /\ file_list = <<>>
    /\ fitted = NoFit
    /\ rect_done = {}
    /\ rectified = [p \in Photos |-> NoPose]
    /\ params = NoPose
    /\ shorelines = {}
    /\ before = Outputs
    /\ approved = {}
    /\ nfits = 0
    /\ prev = NoRun
    /\ RectUnused
    /\ ThreshUnused
    /\ SLUnused
    /\ ConcUnused
    /\ AuxUnused

Init ==
    /\ inputs \in SUBSET InputFiles
    /\ unreadable \in SUBSET Photos
    /\ picks \in (IF "picks" \in inputs THEN GoodPicks ELSE {<<>>})
    /\ InitRun

InitPose ==
    /\ inputs = InputFiles
    /\ unreadable = {}
    /\ picks \in AllPicks
    /\ InitRun

Next ==
    \/ StartRun
    \/ FirstPass
    \/ SecondPassSkip
    \/ SecondPassRegister
    \/ SecondPassEnd
    \/ LoadForRectification
    \/ RectifyStep
    \/ RectificationDone
    \/ MappingStep
    \/ MappingDone
    \/ \E ps \in GoodPicks : SavePicks(ps)
    \/ \E p \in Photos : approve_shoreline(p)

Spec == Init /\ [][Next]_vars

SpecPose == InitPose /\ [][Next]_vars

(***************************************************************************)
(* SpecRect: rectify_image sampling one aligned photo into the grid        *)
(* SpecThresh: the classification threshold of mapSL                       *)
(***************************************************************************)
RegUnused ==
    /\ match = [p \in Photos |-> 0]
    /\ homog = [p \in Photos |-> TRUE]
    /\ registered = {}
    /\ match_counts = <<>>
    /\ rpc = "idle"
    /\ ridx = 1
    /\ passed = {}
    /\ visited = {}
    /\ reg_ret = NotReturned
    /\ ir = NoCall

InitRect ==
    /\ im \in Images
    /\ proj \in [Cells -> Projections]
    /\ nan_cast \in ColorValues
    /\ images_N = [c \in Cells |-> 0]
    /\ ind = [c \in Cells |-> -1]
    /\ raster = [c \in Cells |-> 0]
    /\ cpc = "ready"
    /\ RegUnused
    /\ RunUnused
    /\ ThreshUnused
    /\ SLUnused
    /\ ConcUnused
    /\ AuxUnused

SpecRect == InitRect /\ [][RectifyImage]_vars

InitThresh ==
    /\ pdf_values \in [1..NumLocs -> 1..MaxDensity]
    /\ thresh_otsu \in OtsuValues
    /\ RmBwet = 0
    /\ RmBdry = 0
    /\ thresh3 = 0
    /\ tpc = "ready"
    /\ RegUnused
    /\ RunUnused
    /\ RectUnused
    /\ SLUnused
    /\ ConcUnused
    /\ AuxUnused

SpecThresh == InitThresh /\ [][ComputeThreshold]_vars

(***************************************************************************)
(* C1: image_registration, given fewer than 4 retained correspondences     *)
(* (0, 1, 2 or exactly 3), returns the skip value None, raises nothing and *)
(* writes no aligned image: the Registered directory is left as it was.    *)
(***************************************************************************)
C1_SkipBelowFour ==
    [][ir'.n < 4 => /\ ir'.ret = "None"
                    /\ ~ir'.raised
                    /\ ~ir'.wrote
                    /\ registered' = registered]_vars

\* a call with exactly 3 correspondences was made and skipped, and the photo
\* has no aligned image
C1_Witness == ir.ret = "None" /\ ir.n = 3 /\ ir.photo \notin registered

(***************************************************************************)
(* C2: at the end of a batch, the photos handed to alignment are exactly   *)
(* those whose match count is >= 4 and >= T, T = 0.5 * mean of the counts  *)
(* that are >= 4 (count >= T written as 2 * |valid| * count >= sum); every *)
(* other photo has no aligned image, and with no count >= 4 none is handed *)
(* over.                                                                   *)
(***************************************************************************)
ValidPhotos == {p \in Photos : match[p] >= 4}

RECURSIVE SumMatch(_)
SumMatch(S) == IF S = {} THEN 0
               ELSE LET p == CHOOSE q \in S : TRUE IN match[p] + SumMatch(S \ {p})

MeetsPolicy(p) ==
    /\ match[p] >= 4
    /\ 2 * Cardinality(ValidPhotos) * match[p] >= SumMatch(ValidPhotos)

C2_BatchPolicy ==
    rpc = "done" =>
        /\ passed = {p \in Photos : MeetsPolicy(p)}
        /\ registered \subseteq passed
        /\ (ValidPhotos = {} => passed = {})

\* a batch ended in which a photo with >= 4 matches was skipped for the
\* threshold while another one was aligned
C2_Witness ==
    /\ rpc = "done"
    /\ \E p \in Photos : match[p] >= 4 /\ p \notin passed
    /\ passed # {}

(***************************************************************************)
(* C3: a batch continues past every per-photo failure (every photo of the  *)
(* session is looked at) and reports the counts of succeeded and skipped   *)
(* photos to its caller.                                                   *)
(***************************************************************************)
C3_ContinuesAndReports ==
    rpc = "done" =>
        /\ (ValidPhotos # {} => visited = Photos)
        /\ {"succeeded", "skipped"} \subseteq reg_ret.fields

\* the half of C3 the code keeps: a failed photo does not end the batch
C3_ContinuesPastFailures ==
    rpc = "done" /\ ValidPhotos # {} => visited = Photos

(***************************************************************************)
(* C4: with shoreline mapping enabled, a run that starts while the control *)
(* photo, the mask, the GCP picks or the transects file is absent aborts   *)
(* with an error before any registered image, rectified raster, pose       *)
(* record or shoreline record is written.                                  *)
(***************************************************************************)
C4_MissingInputAbortsFirst ==
    (pc # "idle" /\ ~skip_mapping /\ inputs # InputFiles) =>
        /\ pc # "done"
        /\ Outputs = before

\* what the code keeps of C4: the three inputs it validates
C4_ValidatedInputsAbortFirst ==
    (pc # "idle" /\ ~({"control", "mask", "picks"} \subseteq inputs)) =>
        /\ pc = "error"
        /\ Outputs = before

(***************************************************************************)
(* C5: a pose fit on picks that supply 1, 2 or 3 usable GCPs fails: the    *)
(* run aborts with an error and no rectified raster or pose record is      *)
(* written.                                                                *)
(***************************************************************************)
Usable(gcp) == gcp.u \in PixelValues /\ gcp.v \in PixelValues

NumUsable(sel) == Cardinality({i \in DOMAIN sel : Usable(sel[i])})

C5_FewGCPsAbort ==
    (fitted.called /\ NumUsable(fitted.sel) \in 1..3) =>
        /\ pc = "error"
        /\ rectified = before.rectified
        /\ params = before.params

(***************************************************************************)
(* C6: the correspondences handed to the pose fit are exactly those GCPs   *)
(* of the saved picks that have both u and v set (not missing, not null,   *)
(* not the skipped marker -1).                                             *)
(***************************************************************************)
C6_UnsetExcluded ==
    fitted.called =>
        fitted.uv = uv_coordinates(SelectSeq(fitted.sel, Usable))

(***************************************************************************)
(* C9: after a site-run that rectified at least one photo, the persisted   *)
(* pose record is the pose that produced the rasters of that run.          *)
(***************************************************************************)
C9_ParamsOfThisRun ==
    (pc = "done" /\ rect_done # {}) =>
        \A p \in rect_done : params = rectified[p]

\* what the code keeps of C9: the record is the pose of the first run that
\* rectified a photo on the site
C9_ParamsOfFirstRun ==
    [][params # NoPose => params' = params]_vars

(***************************************************************************)
(* C7: a grid cell carries photo data if and only if its rounded           *)
(* projection (U, V) has 1 <= U <= NU and 1 <= V <= NV; two on-screen      *)
(* cells with different rounded projections never read the same source     *)
(* pixel, and no source index is clamped.                                  *)
(***************************************************************************)
InRange(c) == proj[c][1] \in 1..NU /\ proj[c][2] \in 1..NV

\* unclamped, the flat index of row V and column U is V + NV * U
Unclamped(c) == proj[c][2] + NV * proj[c][1]

C7_OneSourcePixelPerCell ==
    cpc = "written" =>
        /\ \A c \in Cells : images_N[c] = 1 <=> InRange(c)
        /\ \A c \in Cells : InRange(c) => ind[c] = Unclamped(c)
        /\ \A c, d \in Cells :
              (InRange(c) /\ InRange(d) /\ proj[c] # proj[d]) => ind[c] # ind[d]

\* what the code keeps of C7: the on-screen test
C7_DataIffOnScreen ==
    cpc = "written" => \A c \in Cells : images_N[c] = 1 <=> InRange(c)

(***************************************************************************)
(* C8: in the raster that is written, the value of an off-screen cell (no  *)
(* data) differs from the value of every on-screen cell.                   *)
(***************************************************************************)
C8_NoDataDistinct ==
    cpc = "written" =>
        \A c, d \in Cells : (~InRange(c) /\ InRange(d)) => raster[c] # raster[d]

(***************************************************************************)
(* C10: 3 * thresh = wet_peak + 2 * dry_peak, wet_peak a location of the   *)
(* largest density below the Otsu anchor and dry_peak a location of the    *)
(* largest density above it; wet_peak = -10 and dry_peak = 30 give         *)
(* thresh = 50/3.                                                          *)
(***************************************************************************)
IsPeak(x, side) ==
    \E i \in side : /\ pdf_locs[i] = x
                    /\ \A j \in side : pdf_values[j] <= pdf_values[i]

Below == {i \in DOMAIN pdf_locs : pdf_locs[i] < thresh_otsu}
Above == {i \in DOMAIN pdf_locs : pdf_locs[i] > thresh_otsu}

C10_ThresholdFormula ==
    tpc = "done" =>
        /\ IsPeak(RmBwet, Below)
        /\ IsPeak(RmBdry, Above)
        /\ thresh3 = RmBwet + 2 * RmBdry
        /\ (RmBwet = -10 /\ RmBdry = 30 => thresh3 = 50)

C10_Witness == tpc = "done" /\ RmBwet = -10 /\ RmBdry = 30 /\ thresh3 = 50

(***************************************************************************)
(* C11: whenever wet_peak differs from dry_peak, the classification        *)
(* threshold lies closer to the wet mode than to the dry mode:             *)
(* |thresh - wet_peak| < |thresh - dry_peak| (both sides times 3).         *)
(***************************************************************************)
Abs(x) == IF x < 0 THEN -x ELSE x

C11_CloserToWet ==
    (tpc = "done" /\ RmBwet # RmBdry) =>
        Abs(thresh3 - 3 * RmBwet) < Abs(thresh3 - 3 * RmBdry)

\* what the weightings [1/3, 2/3] give: the threshold lies closer to the dry
\* mode, at twice the distance from the wet mode
C11_CloserToDry ==
    (tpc = "done" /\ RmBwet # RmBdry) =>
        /\ Abs(thresh3 - 3 * RmBdry) < Abs(thresh3 - 3 * RmBwet)
        /\ Abs(thresh3 - 3 * RmBwet) = 2 * Abs(thresh3 - 3 * RmBdry)

\* a threshold between two different peaks that are 20 apart
C11_Witness ==
    tpc = "done" /\ RmBdry - RmBwet = 20 /\ thresh3 = 3 * RmBdry - 20

(***************************************************************************)
(* SpecSL: mapSL on one rectified raster and the record saved for it       *)
(***************************************************************************)
InitSL ==
    /\ prof \in [Transects -> ProfileKinds]
    /\ contours \in ContourLists
    /\ dark \in [Transects -> BOOLEAN]
    /\ strong_edge \in [Transects -> BOOLEAN]
    /\ cand = NoFixes
    /\ slx = NoFixes
    /\ dryx = NoFixes
    /\ merr = ""
    /\ mpc = "ready"
    /\ sl_record = NoRecord
    /\ RegUnused
    /\ RunUnused
    /\ RectUnused
    /\ ThreshUnused
    /\ ConcUnused
    /\ AuxUnused

NextSL == mapSL \/ SaveShoreline

SpecSL == InitSL /\ [][NextSL]_vars

(***************************************************************************)
(* C12: on every transect, the qualifying contour points are exactly those *)
(* with perpendicular offset within +/-1 grid spacing and local x in the   *)
(* closed interval [0, transect length]; the candidate fix is a qualifying *)
(* point of smallest local x, and it is undefined iff no point qualifies.  *)
(***************************************************************************)
LocalX(i, pt) == pt[1] - 1
Offset(i, pt) == pt[2] - i

QualifiesClosed(i, pt) ==
    /\ Offset(i, pt) >= -1 /\ Offset(i, pt) <= 1
    /\ LocalX(i, pt) >= 0 /\ LocalX(i, pt) <= GridX - 2

QualifiesOpen(i, pt) ==
    /\ Offset(i, pt) > -1 /\ Offset(i, pt) < 1
    /\ LocalX(i, pt) > 0 /\ LocalX(i, pt) < GridX - 2

CandidateIsFirst(i, Q(_, _)) ==
    LET pts == slpoints(contours)
        qual == {k \in DOMAIN pts : Q(i, pts[k])} IN
    /\ ~cand[i].def <=> qual = {}
    /\ qual # {} =>
          \E k \in qual : /\ cand[i] = Fix(pts[k])
                          /\ \A j \in qual : LocalX(i, pts[k]) <= LocalX(i, pts[j])

C12_ClosedIntersection ==
    mpc \in {"done", "saved"} =>
        \A i \in Transects : CandidateIsFirst(i, QualifiesClosed)

\* what the code keeps of C12: the same with the bounds excluded
C12_OpenIntersection ==
    mpc \in {"done", "saved"} =>
        \A i \in Transects : CandidateIsFirst(i, QualifiesOpen)

(***************************************************************************)
(* C13: lack of a shoreline crossing is never fatal: on every raster and   *)
(* transect set mapSL completes without raising, and every transect with   *)
(* no qualifying contour point gets an undefined fix; this includes        *)
(* profiles that are all zero, on one transect or on all, and no contour   *)
(* at the threshold.                                                       *)
(***************************************************************************)
C13_NeverFatal ==
    mpc # "ready" =>
        /\ mpc # "raised"
        /\ merr = ""
        /\ \A i \in Transects :
              (contours = <<>> \/ I_transect(i, slpoints(contours)) = {}) => ~slx[i].def

\* what the code keeps of C13: when mapSL completes, a transect without a
\* qualifying point has an undefined fix
C13_NaNWhenCompleted ==
    mpc \in {"done", "saved"} =>
        \A i \in Transects : I_transect(i, slpoints(contours)) = {} => ~slx[i].def

(***************************************************************************)
(* C14: the record saved for a photo holds, for every transect, the        *)
(* primary shoreline world coordinates and the dry-sand boundary world     *)
(* coordinates (each possibly undefined), and an "approved" flag that is   *)
(* false.                                                                  *)
(***************************************************************************)
C14_RecordHasBothFixes ==
    sl_record.saved =>
        /\ {"UTMx", "UTMy"} \subseteq sl_record.attrs
        /\ DOMAIN sl_record.utm = Transects
        /\ {"dryx", "dryy"} \subseteq sl_record.attrs
        /\ "approved" \in sl_record.fields
        /\ sl_record.approved = FALSE

\* what the code keeps of C14: the primary fixes and the flag
C14_RecordHasPrimary ==
    sl_record.saved =>
        /\ {"UTMx", "UTMy"} \subseteq sl_record.attrs
        /\ sl_record.utm = slx
        /\ "approved" \in sl_record.fields
        /\ sl_record.approved = FALSE

(***************************************************************************)
(* C15: a run in which the pose fit fails, or in which a registered photo  *)
(* cannot be rectified, ends with an error, and no shoreline record is     *)
(* written in that run.                                                    *)
(***************************************************************************)
PoseFitFailed == fitted.called /\ fitted.out # "ok"

\* the rectification loop is over and left a registered photo unrectified
PhotoNotRectified ==
    pc \in {"mapping", "done"} /\ registered \cap unreadable # {}

C15_FailuresAbort ==
    (PoseFitFailed \/ PhotoNotRectified) =>
        /\ pc = "error"
        /\ shorelines = before.shorelines

\* what the code keeps of C15: a failed pose fit ends the run with an error
\* before any shoreline record is written
C15_PoseFailureAborts ==
    PoseFitFailed =>
        /\ pc = "error"
        /\ err \in {"RuntimeError", "TypeError"}
        /\ shorelines = before.shorelines

(***************************************************************************)
(* C18: output files are write-once: once a rectified raster, the pose     *)
(* record or a shoreline record exists, no step of a processing run        *)
(* changes it; only the manual approval may change a shoreline record.     *)
(***************************************************************************)
C18_WriteOnce ==
    [][/\ \A p \in Photos : rectified[p].solved => rectified'[p] = rectified[p]
       /\ params.solved => params' = params
       /\ approved \subseteq approved']_vars

AlignedBeforePose == nfits > 0 => (rpc = "idle" /\ visited \in {{}, Photos})

RectifiedBeforeMapping ==
    pc = "mapping" =>
        /\ rect_done = registered \ unreadable
        /\ \A p, q \in rect_done : rectified[p] = rectified[q]

NoMappingWhenSkipped ==
    (pc = "done" /\ skip_mapping) => shorelines = before.shorelines

C20_DependencyOrder ==
    /\ AlignedBeforePose
    /\ (pc \in {"mapping", "done"} /\ rect_done # {}) => nfits = 1
    /\ RectifiedBeforeMapping
    /\ NoMappingWhenSkipped

\* what the code keeps of C20: the order of the stages; the pose is solved
\* once for every photo it rectifies
C20_StagesInOrder ==
    /\ AlignedBeforePose
    /\ (pc \in {"mapping", "done"}) => nfits = Cardinality(rect_done)
    /\ RectifiedBeforeMapping
    /\ NoMappingWhenSkipped

(***************************************************************************)
(* SpecConc: processing requests and site switches in one server process   *)
(***************************************************************************)
InitConc ==
    /\ current_site \in Sites
    /\ rq = [r \in Requests |-> IdleRequest]
    /\ RegUnused
    /\ RunUnused
    /\ RectUnused
    /\ ThreshUnused
    /\ SLUnused
    /\ AuxUnused

NextConc ==
    \/ \E r \in Requests : ReqStart(r)
    \/ \E r \in Requests : ReqRegistered(r)
    \/ \E r \in Requests : ReqRectified(r)
    \/ \E r \in Requests : ReqMapped(r)
    \/ \E r \in Requests : ReqReturn(r)
    \/ \E site_name \in Sites : set_site(site_name)

SpecConc == InitConc /\ [][NextConc]_vars

(***************************************************************************)
(* C16: single-flight: at any time at most one request of the process is   *)
(* inside model inference (Registration) or pose solving (Rectification).  *)
(***************************************************************************)
InFlight == {r \in Requests : rq[r].pc \in {"registration", "rectification"}}

C16_SingleFlight == Cardinality(InFlight) <= 1

(***************************************************************************)
(* C17: a run started while a site is current reads only that site's       *)
(* inputs and calibration and writes only that site's directories, also    *)
(* when the current site is changed while the run is in progress.          *)
(***************************************************************************)
C17_RunStaysOnItsSite ==
    \A r \in Requests :
        rq[r].pc # "idle" =>
            /\ rq[r].reads \subseteq {rq[r].site0}
            /\ rq[r].writes \subseteq {rq[r].site0}

\* what the code keeps of C17: Registration works on the site directory it
\* was constructed with
C17_RegistrationStaysOnItsSite ==
    \A r \in Requests :
        rq[r].pc \in {"registration", "rectification"} =>
            rq[r].writes \subseteq {rq[r].site0}

(***************************************************************************)
(* SpecMask: count_matches and get_filtered_keypoints on the matches of    *)
(* one photo                                                               *)
(***************************************************************************)
InitMask ==
    /\ mask \in Masks
    /\ m_kpts0 \in KeypointSeqs(MaxPairs)
    /\ m_kpts1 = [k \in DOMAIN m_kpts0 |-> 100 + k]
    /\ kps0 = <<>>
    /\ kps1 = <<>>
    /\ count = -1
    /\ mask_access = "ok"
    /\ kpc = {}
    /\ AuxUnusedBut("mask")
    /\ RegUnused
    /\ RunUnused
    /\ RectUnused
    /\ ThreshUnused
    /\ SLUnused
    /\ ConcUnused

NextMask == CountMatches \/ FilterKeypoints

SpecMask == InitMask /\ [][NextMask]_vars

(***************************************************************************)
(* C21: when every matched control-side keypoint lies inside the control   *)
(* photo (border pixels included), a pair is retained iff the mask is      *)
(* non-zero at the pixel of its keypoint; the retained lists have equal    *)
(* length and are the retained pairs in order; count_matches returns that  *)
(* length; and no mask access is out of range or wrapped.                  *)
(***************************************************************************)
InsideImage(pt) ==
    pt[1] >= 0 /\ pt[1] <= 2 * (MaskW - 1) /\ pt[2] >= 0 /\ pt[2] <= 2 * (MaskH - 1)

\* the pixels whose centre is nearest to the keypoint (two on a half)
NearestPixels(pt) ==
    {px \in MaskPixels : /\ 2 * px[2] - pt[1] \in -1..1
                         /\ 2 * px[1] - pt[2] \in -1..1}

IsRetained(k) == \E j \in DOMAIN kps0 : kps0[j] = m_kpts0[k] /\ kps1[j] = m_kpts1[k]

C21_MaskFilter ==
    (kpc = {"count", "filter"} /\ \A k \in DOMAIN m_kpts0 : InsideImage(m_kpts0[k])) =>
        /\ mask_access = "ok"
        /\ \A k \in DOMAIN m_kpts0 :
              /\ IsRetained(k) => \E px \in NearestPixels(m_kpts0[k]) : mask[px] # 0
              /\ ~IsRetained(k) => \E px \in NearestPixels(m_kpts0[k]) : mask[px] = 0
        /\ Len(kps0) = Len(kps1)
        /\ \E S \in SUBSET DOMAIN m_kpts0 :
              kps0 = Pick(m_kpts0, S, 1) /\ kps1 = Pick(m_kpts1, S, 1)
        /\ count = Len(kps0)

\* two matches inside the photo, one on the border pixel of the last column
\* and row, one outside the mask: one pair is retained
C21_Witness ==
    /\ kpc = {"count", "filter"}
    /\ Len(m_kpts0) = 2
    /\ m_kpts0[1] = <<2 * (MaskW - 1), 2 * (MaskH - 1)>>
    /\ InsideImage(m_kpts0[2])
    /\ kps0 = <<m_kpts0[1]>>
    /\ kps1 = <<m_kpts1[1]>>
    /\ count = 1

(***************************************************************************)
(* SpecFocal: the focal-length candidates for one image width and one      *)
(* field-of-view range                                                     *)
(***************************************************************************)
InitFocal ==
    /\ fx_lo \in 1..(FxTop + 3)
    /\ fx_hi \in fx_lo..(FxTop + 3)
    /\ fx_all = <<>>
    /\ fx_err = ""
    /\ fpc = "ready"
    /\ AuxUnusedBut("focal")
    /\ RegUnused
    /\ RunUnused
    /\ RectUnused
    /\ ThreshUnused
    /\ SLUnused
    /\ ConcUnused

SpecFocal == InitFocal /\ [][FocalCandidates]_vars

(***************************************************************************)
(* C22: for every image width and field-of-view range the set of focal-    *)
(* length candidates is non-empty, consecutive candidates are exactly 5    *)
(* apart, and every candidate lies between 0.5*NU/tan(FOV_max/2) and       *)
(* 0.5*NU/tan(FOV_min/2).                                                  *)
(***************************************************************************)
StepIsFive == \A k \in 1..(Len(fx_all) - 1) : fx_all[k + 1] - fx_all[k] = 5

C22_CandidatesWithinFOV ==
    fpc = "done" =>
        /\ fx_all # <<>>
        /\ StepIsFive
        /\ \A k \in DOMAIN fx_all : fx_lo <= fx_all[k] /\ fx_all[k] <= fx_hi

\* what the code keeps of C22: when both bounds are on the lookup grid's
\* range, the candidates are the multiples of 5 from the one nearest to the
\* lower bound to the one nearest to the upper bound
C22_CandidatesOnGrid ==
    (fpc = "done" /\ fx_err = "") =>
        /\ fx_all # <<>>
        /\ StepIsFive
        /\ \A k \in DOMAIN fx_all :
              fx_all[k] % 5 = 0 /\ fx_lo - 2 <= fx_all[k] /\ fx_all[k] <= fx_hi + 2

(***************************************************************************)
(* SpecProbe: the black test for one candidate on one world grid           *)
(***************************************************************************)
InitProbe ==
    /\ \E x0 \in Origins, xs \in 1..MaxXSpan : xlim = <<x0, x0 + xs>>
    /\ \E y0 \in Origins, ys \in 1..MaxYSpan : ylim = <<y0, y0 + ys>>
    /\ dxdy \in 1..MaxSpacing
    /\ RminusBdouble \in Rasters(xlim, ylim, dxdy)
    /\ \E cell \in RasterCells(xlim, ylim, dxdy) :
          bt_cand = <<grid_node(xlim, dxdy, cell[2]), grid_node(ylim, dxdy, cell[1])>>
    /\ row_idx = 0
    /\ col_idx = 0
    /\ bt_kept = FALSE
    /\ bpc = "ready"
    /\ AuxUnusedBut("probe")
    /\ RegUnused
    /\ RunUnused
    /\ RectUnused
    /\ ThreshUnused
    /\ SLUnused
    /\ ConcUnused

SpecProbe == InitProbe /\ [][BlackTest]_vars

(***************************************************************************)
(* C23: the black test probes the colour difference at the raster cell     *)
(* that contains the world point 2 world-units seaward of the candidate,   *)
(* by the world grid's own world-to-cell mapping, for every grid bounds    *)
(* and spacing; the candidate is kept only if that probe is not zero.      *)
(***************************************************************************)
WorldCell ==
    <<world_to_cell(test_unrot(bt_cand)[2], ylim, dxdy),
      world_to_cell(test_unrot(bt_cand)[1], xlim, dxdy)>>

C23_ProbeAtWorldCell ==
    (bpc = "done" /\ WorldCell \in DOMAIN RminusBdouble) =>
        /\ <<row_idx, col_idx>> = WorldCell
        /\ bt_kept <=> not_isclose_zero(RminusBdouble[WorldCell])

\* what the code keeps of C23: on a grid whose bounds are a whole number of
\* spacings apart, the probe is at the world point's cell, and the candidate
\* is kept exactly if that cell is on the raster and not zero there
Aligned == (xlim[2] - xlim[1]) % dxdy = 0 /\ (ylim[2] - ylim[1]) % dxdy = 0

C23_ProbeWhenAligned ==
    (bpc = "done" /\ Aligned) =>
        /\ <<row_idx, col_idx>> = WorldCell
        /\ bt_kept <=> (/\ WorldCell \in DOMAIN RminusBdouble
                        /\ not_isclose_zero(RminusBdouble[WorldCell]))

(***************************************************************************)
(* SpecGrad: the dry-sand pass on one inland brightness profile            *)
(***************************************************************************)
\* the profiles: bright sand, a drop of height h toward the sea from sample
\* e on, and at most one masked sample
InlandProfiles ==
    {[j \in 1..n |-> IF j = masked THEN NaNValue
                     ELSE IF j < e THEN Value(Bright) ELSE Value(Bright - h)] :
        n \in (min_valid - 2)..MaxInland, e \in 2..MaxInland,
        h \in StepHeights, masked \in 0..MaxInland}

InitGrad ==
    /\ inland_prof \in InlandProfiles
    /\ dry_defined = FALSE
    /\ trans_idx = 0
    /\ gpc = "ready"
    /\ AuxUnusedBut("grad")
    /\ RegUnused
    /\ RunUnused
    /\ RectUnused
    /\ ThreshUnused
    /\ SLUnused
    /\ ConcUnused

SpecGrad == InitGrad /\ [][DrySand]_vars

(***************************************************************************)
(* C24: for every inland brightness profile, masked samples included, the  *)
(* dry-sand boundary is defined only if the steepest seaward brightness    *)
(* decrease has a gradient of more than 5; otherwise it is undefined.      *)
(***************************************************************************)
SteepEdge ==
    \E j \in DOMAIN inland_prof :
        LET val == landward_dV(inland_prof)[j]
        IN  ~val.nan /\ val.v > 2 * 5 * gauss_scale

C24_DryOnlyIfSteep == (gpc = "done" /\ dry_defined) => SteepEdge

\* what the code keeps of C24: on a profile without masked samples the
\* boundary is defined only at an edge that is at least as steep as 5
C24_DryOnlyIfSteepUnmasked ==
    (gpc = "done" /\ dry_defined /\ valid_size(inland_prof) = Len(inland_prof)) =>
        LET val == landward_dV(inland_prof)[trans_idx]
        IN  /\ val.v >= 2 * 5 * gauss_scale
            /\ \A j \in DOMAIN inland_prof : landward_dV(inland_prof)[j].v <= val.v

(***************************************************************************)
(* SpecStore: mapping runs, edits, resets and approvals on one site        *)
(***************************************************************************)
InitStore ==
    /\ rect_files \in SUBSET FileNumbers \ {{}}
    /\ store = [n \in Keys |-> NoFile]
    /\ AuxUnusedBut("store")
    /\ RegUnused
    /\ RunUnused
    /\ RectUnused
    /\ ThreshUnused
    /\ SLUnused
    /\ ConcUnused

NextStore ==
    \/ run_shoreline_mapping
    \/ \E image_index \in Indices : save_edited_shoreline(image_index, "edited")
    \/ \E image_index \in Indices : reset_shoreline(image_index)
    \/ \E image_index \in Indices : approve_shoreline_file(image_index)

SpecStore == InitStore /\ [][NextStore]_vars

(***************************************************************************)
(* C25: after edits of a record followed by reset_shoreline, the record's  *)
(* shoreline points are the ones run_shoreline_mapping wrote, and the edit *)
(* markers are absent.                                                     *)
(***************************************************************************)
ResetOfMapped(i) ==
    /\ reset_shoreline(i)
    /\ store[get_shoreline_filename(rect_files, i)].mapped

C25_ResetRestoresDetection ==
    [][\A i \in Indices :
          ResetOfMapped(i) =>
              LET rec == store'[get_shoreline_filename(rect_files, i)]
              IN  rec.points = "detected" /\ ~rec.edited]_vars

\* what the code keeps of C25: a reset removes the edit markers, and the
\* shoreline points with them
C25_ResetRemovesPoints ==
    [][\A i \in Indices :
          ResetOfMapped(i) =>
              LET rec == store'[get_shoreline_filename(rect_files, i)]
              IN  rec.points = "none" /\ ~rec.edited]_vars

(***************************************************************************)
(* C26: once a record is approved it stays approved, whatever edits,       *)
(* resets and mapping runs follow on the same site.                        *)
(***************************************************************************)
StaysApproved == \A n \in Keys : store[n].approved => store'[n].approved

C26_ApprovalDurable == [][StaysApproved]_vars

\* what the code keeps of C26: only a mapping run takes an approval back
C26_DurableUntilRemapped == [][StaysApproved \/ run_shoreline_mapping]_vars

(***************************************************************************)
(* C27: for every set of rectified file names and every index i, the       *)
(* shoreline service resolves i to the record that run_shoreline_mapping   *)
(* wrote for the i-th file of list_rectified_images.                       *)
(***************************************************************************)
AllMapped == \A n \in rect_files : store[n].exists /\ store[n].mapped

C27_IndexMeansSamePhoto ==
    AllMapped =>
        \A i \in Indices :
            i < Len(list_image_files) =>
                get_shoreline_filename(rect_files, i) = list_image_files[i + 1]

\* what the code keeps of C27: the index resolves to the photo's record when
\* the two orders of the names agree and no record is stored under the index
C27_SamePhotoWhenOrdersAgree ==
    (AllMapped /\ sorted(rect_files) = list_image_files) =>
        \A i \in Indices :
            (i < Len(list_image_files) /\ ~store[i].exists) =>
                get_shoreline_filename(rect_files, i) = list_image_files[i + 1]

(***************************************************************************)
(* SpecSites: one SiteManager, from its construction, under the calls of   *)
(* the site and metrics endpoints                                          *)
(***************************************************************************)
\* lines 14-20, __init__: the registry is what sites.json holds
InitSites ==
    /\ sites \in Registries
    /\ sm_current_site = "manly"
    /\ site_dir = "manly"
    /\ AuxUnusedBut("sites")
    /\ RegUnused
    /\ RunUnused
    /\ RectUnused
    /\ ThreshUnused
    /\ SLUnused
    /\ ConcUnused

NextSites ==
    \/ \E s \in SiteNames, rid \in RootIds, saved \in BOOLEAN :
          SiteManager_add_site(s, rid, saved)
    \/ \E s \in SiteNames : SiteManager_set_site(s)
    \/ \E s \in SiteNames : mark_setup_complete(s)
    \/ \E s \in SiteNames, saved \in BOOLEAN : SiteManager_delete_site(s, saved)
    \/ \E s \in SiteNames, raised \in BOOLEAN : get_site_metrics(s, raised)
    \/ get_all_site_metrics

SpecSites == InitSites /\ [][NextSites]_vars

(***************************************************************************)
(* C28: from construction on and after any add_site, set_site, delete_site *)
(* and mark_setup_complete, the current site is a key of the registry, or  *)
(* None only when the registry is empty, and the paths are those of the    *)
(* current site.                                                           *)
(***************************************************************************)
CurrentRegistered ==
    \/ sm_current_site \in SiteKeys(sites)
    \/ sm_current_site = "None" /\ sites = <<>>

PathsOfCurrent == sm_current_site # "None" => site_dir = sm_current_site

C28_CurrentSiteValid == CurrentRegistered /\ PathsOfCurrent

\* what the code keeps of C28: while there is a current site, the paths are
\* its paths
C28_PathsFollowCurrent == PathsOfCurrent

(***************************************************************************)
(* C29: if persisting the registry fails, add_site leaves the in-memory    *)
(* registry exactly as it was, for a new and for an existing site name.    *)
(***************************************************************************)
C29_AddSiteAtomic ==
    [][\A s \in SiteNames, rid \in RootIds :
          SiteManager_add_site(s, rid, FALSE) => sites' = sites]_vars

\* what the code keeps of C29: a failed add_site of a new name leaves the
\* registry as it was, and no failed add_site leaves the name registered
C29_AddSiteUndone ==
    [][\A s \in SiteNames, rid \in RootIds :
          SiteManager_add_site(s, rid, FALSE) =>
              /\ s \notin SiteKeys(sites')
              /\ s \notin SiteKeys(sites) => sites' = sites]_vars

(***************************************************************************)
(* C30: when get_site_metrics or get_all_site_metrics returns, with a      *)
(* success or an error response, the active site is the one that was       *)
(* active when the request arrived.                                        *)
(***************************************************************************)
MetricsRequest ==
    \/ \E s \in SiteNames, raised \in BOOLEAN : get_site_metrics(s, raised)
    \/ get_all_site_metrics

C30_MetricsKeepSite ==
    [][MetricsRequest => sm_current_site' = sm_current_site]_vars

\* what the code keeps of C30: the active site is restored when it is a
\* registered site and the metrics are computed without an exception
C30_RestoredOnSuccess ==
    [][(/\ sm_current_site \in SiteKeys(sites)
        /\ \/ \E s \in SiteNames : get_site_metrics(s, FALSE)
           \/ get_all_site_metrics)
       => sm_current_site' = sm_current_site]_vars

=============================================================================
